---- MODULE Spec2Model ----
(***************************************************************************)
(* Model of the focus-group discussion orchestrator of tinytroupe_agentic: *)
(* DiscussionModeratorAgent.conduct_discussion with its two bodies (the    *)
(* fixed phase flow and the Coordinator-driven agentic loop), the          *)
(* AgenticCoordinator, the JSON helper of LLMClient, the participant       *)
(* session of TinyTroupeManager and QAAssistantAgent.answer_question.      *)
(*                                                                         *)
(* Strings built by f-strings are sequences of tokens (template text,      *)
(* interpolated value); timestamps are left out of transcript entries.     *)
(***************************************************************************)
EXTENDS Integers, Sequences, FiniteSets, TLC

(***************************************************************************)
(* Bounds of the model (not program constants).                            *)
(***************************************************************************)
\* number of leading agentic turns / phase questions whose Coordinator
\* reply or random draws range over the full set of outcomes; later turns
\* draw from the terminal outcomes and one continuing outcome only
MaxFree == 1

\* longest transcript handed to the organizer on its own
MaxEntries == 3

\* most responses in a transcript handed to generate_summary on its own
MaxResponses == 4

\* most lines of an outline handed to generate_custom_summary
MaxLines == 2

(***************************************************************************)
(* Program constants.                                                      *)
(***************************************************************************)
max_turns == 30

topic == "skincare"

\* personas handed to conduct_discussion: name and personality_type
Persona(n, pt) == [name |-> n, personality_type |-> pt]

Aditi == Persona("Aditi", "enthusiast")
Rahul == Persona("Rahul", "skeptic")
Priya == Persona("Priya", "budget_conscious")

\* rosters a caller may pass: three participants, or fewer than three
Rosters == { <<Aditi, Rahul, Priya>>, <<Aditi, Rahul>> }

\* plan_text: None/empty (falsy) or a plan
PlanTexts == { "", "plan" }

(***************************************************************************)
(* JSON values as the generation service may return them.                  *)
(***************************************************************************)
JNull == [t |-> "null", v |-> ""]
JStr(s) == [t |-> "str", v |-> s]
JNum(s) == [t |-> "num", v |-> s]

\* a JSON string holding free text (a sequence of tokens)
JText(tokens) == [t |-> "str", s |-> tokens]
JList(items) == [t |-> "list", items |-> items]
\* a JSON object: its key/value pairs in document order
JDict(pairs) == [t |-> "dict", pairs |-> pairs]
KV(k, v) == [k |-> k, v |-> v]

IsStr(j) == j.t = "str"
IsList(j) == j.t = "list"
IsDict(j) == j.t = "dict"

\* Python truthiness of a JSON value
Truthy(j) ==
    CASE j.t = "null" -> FALSE
      [] j.t = "str"  -> IF "s" \in DOMAIN j THEN j.s # << >> ELSE j.v # ""
      [] j.t = "num"  -> j.v # "0"
      [] j.t = "list" -> j.items # << >>
      [] j.t = "dict" -> j.pairs # << >>
      [] OTHER        -> TRUE

\* dict.get(key): None when the key is absent
Get(d, k) ==
    IF \E i \in DOMAIN d.pairs : d.pairs[i].k = k
    THEN d.pairs[CHOOSE i \in DOMAIN d.pairs : d.pairs[i].k = k].v
    ELSE JNull

\* str.lower() on the action strings the model uses
Lower(s) ==
    CASE s = "END"     -> "end"
      [] s = "Wrap_Up" -> "wrap_up"
      [] OTHER         -> s

(***************************************************************************)
(* Sequence helpers.                                                       *)
(***************************************************************************)
Perms(s) ==
    { p \in [DOMAIN s -> DOMAIN s] : \A i, j \in DOMAIN s : i # j => p[i] # p[j] }

Names(ps) == [i \in DOMAIN ps |-> ps[i].name]

(***************************************************************************)
(* Transcript entries.                                                     *)
(***************************************************************************)
\* conduct_discussion: the opening context entry
SetupEntry(ps) ==
    [type |-> "setup", speaker |-> "System",
     content |-> <<"Focus Group Discussion: ", topic>>,
     participants |-> Names(ps)]

CasualEntry(spk, text) == [type |-> "casual", speaker |-> spk, content |-> <<text>>]

\* _create_pre_discussion_moments: personas[0], [1] and [2] are indexed
\* unconditionally; with fewer than three personas the f-string raises
\* IndexError before anything is returned
PreDiscussionRaises(ps) == Len(ps) < 3

_create_pre_discussion_moments(ps) ==
    << [type |-> "setup", speaker |-> "Moderator",
        content |-> <<"Welcome everyone!">>],
       CasualEntry(ps[1].name, "This room is quite nice!"),
       CasualEntry(ps[2].name, "Same here! Are we being recorded?"),
       CasualEntry(ps[3].name, "I brought some notes just in case."),
       CasualEntry("Moderator", "Perfect! Let's officially begin.") >>

\* as _create_post_discussion_moments, the chatter appended after the
\* conclusion entry
PostMomentsChatterLast(ps) ==
    << [type |-> "wrap_up", speaker |-> "Moderator",
        content |-> <<"Thank you all for such an engaging discussion!">>],
       [type |-> "conclusion", speaker |-> "System",
        content |-> <<"Focus group discussion completed successfully.">>] >>
    \o (IF Len(ps) >= 2
        THEN << CasualEntry(ps[1].name, "This was really interesting!"),
                CasualEntry(ps[2].name, "Same here! Thanks for sharing.") >>
        ELSE << >>)

\* _create_post_discussion_moments: wrap_up, chatter when there are at
\* least two personas, then the conclusion entry
_create_post_discussion_moments(ps) ==
    << [type |-> "wrap_up", speaker |-> "Moderator",
        content |-> <<"Thank you all for such an engaging discussion!">>] >>
    \o (IF Len(ps) >= 2
        THEN << CasualEntry(ps[1].name, "This was really interesting!"),
                CasualEntry(ps[2].name, "Same here! Thanks for sharing.") >>
        ELSE << >>)
    \o << [type |-> "conclusion", speaker |-> "System",
           content |-> <<"Focus group discussion completed successfully.">>] >>

QuestionEntry(q, phase) ==
    [type |-> "question", speaker |-> "Moderator", content |-> q, phase |-> phase]

PhaseStartEntry(text, phase) ==
    [type |-> "phase_start", speaker |-> "Moderator", content |-> text, phase |-> phase]

\* TinyPerson.act after listen: the conversation history is not empty, and
\* every branch (engine reply, generation-service text, template) yields a
\* non-empty string; exceptions of the service are caught inside act
ActReplies == { <<"Let me share my thoughts on this...">> }

\* as _get_participant_responses, the speakers drawn with replacement (the
\* first drawn speaker answers every time)
ResponsesWithReplacement(ps, order, replies) ==
    [i \in DOMAIN ps |->
        [type |-> "response", speaker |-> ps[order[1]].name,
         content |-> replies[i], speaking_order |-> i,
         personality_type |-> ps[order[1]].personality_type]]

\* _get_participant_responses: speaking_order = random.sample(personas, n);
\* order is the drawn permutation, replies[i] what the i-th speaker said.
\* Every reply is non-empty, so the `if response_content` guard always passes.
_get_participant_responses(ps, order, replies) ==
    [i \in DOMAIN ps |->
        [type |-> "response", speaker |-> ps[order[i]].name,
         content |-> replies[i], speaking_order |-> i,
         personality_type |-> ps[order[i]].personality_type]]

(***************************************************************************)
(* The generation service (LLMClient).                                     *)
(***************************************************************************)
\* An outcome of one _chat_completion call: every attempt failed and the
\* last error is raised, or the raw text of the reply.  A raw text is
\* described by how json.loads fares on it:
\*   "json"  - the whole text parses, to value val
\*   "prose" - the whole text does not parse, the outermost {...} substring
\*             parses to the object val
\*   "text"  - neither parses
ServiceRaises == [raise |-> TRUE]
Reply(form, val) == [raise |-> FALSE, form |-> form, val |-> val]

_fallback_json == JDict(<< KV("note", JText(<<"LLM disabled; using static fallback.">>)) >>)

\* generate_json_sync after _chat_completion returned raw (llm_client.py
\* defines class LLMClient a second time further down the file, without the
\* *_sync helpers; the callers all use the helpers of the first definition,
\* which is the one modelled)
ParseReply(raw) ==
    CASE raw.form = "json"  -> raw.val
      [] raw.form = "prose" -> raw.val
      [] OTHER              -> JDict(<< KV("content", JText(<<"raw text">>)) >>)

\* generate_json_sync: the fallback object when the service is disabled
generate_json_sync(en, raw) == IF ~en THEN _fallback_json ELSE ParseReply(raw)

(***************************************************************************)
(* The discussion flow: an ordered mapping phase -> questions.             *)
(***************************************************************************)
Phase(name, qs) == [phase |-> name, questions |-> qs]

\* a template question: its text, and whether it carries the {topic} field
T(text, hasTopic) == IF hasTopic THEN <<text, topic>> ELSE <<text>>

\* _load_discussion_templates after template.format(topic=topic)
TemplateFlow ==
    << Phase("opening_questions",
             << T("Please introduce yourself", FALSE),
                T("Your current relationship with ", TRUE),
                T("One word that comes to mind about ", TRUE) >>),
       Phase("exploration_questions",
             << T("Your most recent experience with ", TRUE),
                T("What influences your decisions on ", TRUE),
                T("What frustrates you most about ", TRUE),
                T("How do you research ", TRUE) >>),
       Phase("deep_dive_questions",
             << T("How do budget considerations affect your choices?", FALSE),
                T("What would make you change your approach to ", TRUE),
                T("If you had to convince a friend about ", TRUE),
                T("One thing you wish more people understood about ", TRUE) >>),
       Phase("comparison_questions",
             << T("Online vs offline experiences with ", TRUE),
                T("Brand reputation vs price for ", TRUE),
                T("Recommendations from friends vs influencers vs experts?", FALSE),
                T("Traditional vs modern approaches to ", TRUE) >>),
       Phase("future_focused_questions",
             << T("How do you see your relationship evolving with ", TRUE),
                T("What innovations would excite you in ", TRUE),
                T("Design the perfect experience of ", TRUE),
                T("Advice to someone just starting with ", TRUE) >>),
       Phase("wrap_up_questions",
             << T("The most important insight you are taking away?", FALSE),
                T("Anything we have not discussed about ", TRUE),
                T("Any final thoughts or questions for the group?", FALSE) >>) >>

\* q.replace("{topic}", topic) on a tokenised string
ReplaceTopic(tokens) ==
    [i \in DOMAIN tokens |-> IF tokens[i] = "{topic}" THEN topic ELSE tokens[i]]

\* [f(q) for q in qs if isinstance(q, str)]
RECURSIVE StringQuestions(_, _)
StringQuestions(items, replace) ==
    IF items = << >> THEN << >>
    ELSE LET rest == StringQuestions(Tail(items), replace)
             q == Head(items)
         IN IF IsStr(q)
            THEN << IF replace THEN ReplaceTopic(q.s) ELSE q.s >> \o rest
            ELSE rest

\* for phase, qs in flow_json.items(): if isinstance(qs, list): ...
\* (conduct_discussion keeps a phase whose list holds no string)
RECURSIVE ListPhases(_, _)
ListPhases(pairs, replace) ==
    IF pairs = << >> THEN << >>
    ELSE LET rest == ListPhases(Tail(pairs), replace)
             kv == Head(pairs)
         IN IF IsList(kv.v)
            THEN << Phase(kv.k, StringQuestions(kv.v.items, replace)) >> \o rest
            ELSE rest

\* _generate_discussion_flow keeps a phase only with at least one question
NonEmptyPhases(flow) == SelectSeq(flow, LAMBDA ph : ph.questions # << >>)

\* _generate_discussion_flow(topic); out is the outcome of the service call
\* it makes when the service is enabled
_generate_discussion_flow(en, out) ==
    IF en /\ ~out.raise
    THEN LET flow == generate_json_sync(en, out)
             normalized == IF IsDict(flow)
                           THEN NonEmptyPhases(ListPhases(flow.pairs, TRUE))
                           ELSE << >>
         IN IF normalized # << >> THEN normalized ELSE TemplateFlow
    ELSE TemplateFlow

\* what flow generation hands on: a flow, or an exception
FlowOk(flow) == [exc |-> "none", flow |-> flow]
FlowRaise(e) == [exc |-> e, flow |-> << >>]

\* conduct_discussion, "Generate discussion flow": out1 is the outcome of
\* the first service call made, out2 of the second (made by
\* _generate_discussion_flow on the plan path's fallbacks)
GenerateFlow(en, only, plan, out1, out2) ==
    IF plan # "" /\ en
    THEN IF out1.raise
         THEN IF only THEN FlowRaise("LLMError")
              ELSE FlowOk(_generate_discussion_flow(en, out2))
         ELSE LET flow_json == generate_json_sync(en, out1)
              IN IF IsDict(flow_json) /\ Truthy(flow_json)
                 THEN FlowOk(ListPhases(flow_json.pairs, TRUE))
                 ELSE FlowOk(_generate_discussion_flow(en, out2))
    ELSE IF only
         THEN IF en /\ out1.raise THEN FlowRaise("LLMError")
              ELSE LET flow_json == generate_json_sync(en, out1)
                   IN IF IsDict(flow_json) /\ Truthy(flow_json)
                      THEN FlowOk(ListPhases(flow_json.pairs, FALSE))
                      ELSE FlowRaise("RuntimeError")
         ELSE FlowOk(_generate_discussion_flow(en, out1))

\* replies of the service to a flow request
FlowQuestion == JText(<<"What do you think of ", "{topic}">>)

FlowReplies ==
    { ServiceRaises,
      Reply("json", JDict(<< KV("warmup", JList(<< FlowQuestion, JNum("5") >>)),
                             KV("notes", JText(<<"n/a">>)) >>)),
      Reply("json", JDict(<< KV("warmup", JText(<<"not a list">>)) >>)),
      Reply("json", JList(<< >>)),
      Reply("text", JNull) }

(***************************************************************************)
(* The Coordinator and the directives of the agentic loop.                 *)
(***************************************************************************)
Directive(pairs) == JDict(pairs)

WrapUpFallback ==
    Directive(<< KV("action", JStr("wrap_up")), KV("notes", JStr("fallback")),
                 KV("reason", JStr("invalid response")) >>)

\* as propose_next_action, with a fallback directive that ends the session
\* silently
ProposeWithEndFallback(en, raw) ==
    LET result == generate_json_sync(en, raw)
    IN IF ~IsDict(result)
       THEN Directive(<< KV("action", JStr("end")), KV("notes", JStr("fallback")) >>)
       ELSE result

\* AgenticCoordinator.propose_next_action after the service replied raw: the
\* parsed reply when it is a dict, the wrap_up fallback otherwise
propose_next_action(en, raw) ==
    LET result == generate_json_sync(en, raw)
    IN IF ~IsDict(result) THEN WrapUpFallback ELSE result

\* (directive.get("action") or "").lower() raises AttributeError when the
\* action is a truthy value that is not a string
ActionRaises(directive) ==
    LET a == Get(directive, "action") IN Truthy(a) /\ ~IsStr(a)

ActionOf(directive) ==
    LET a == Get(directive, "action") IN IF Truthy(a) THEN Lower(a.v) ELSE ""

\* as QuestionOf, falling back only when the key is absent (`is None`)
QuestionOfUnlessNone(directive) ==
    LET q == Get(directive, "moderator_question")
    IN IF IsStr(q) THEN q.s ELSE <<"Could you share more about ", topic>>

\* directive.get("moderator_question") or f"Could you share more about {topic}?"
QuestionOf(directive) ==
    LET q == Get(directive, "moderator_question")
    IN IF Truthy(q) THEN q.s ELSE <<"Could you share more about ", topic>>

\* as TargetOf, falling back to the last persona
TargetOfLastFallback(directive, ps) ==
    LET name == Get(directive, "speaker")
        hits == { i \in DOMAIN ps : IsStr(name) /\ ps[i].name = name.v }
    IN IF hits # {} THEN CHOOSE i \in hits : \A j \in hits : i <= j ELSE Len(ps)

\* next((p for p in personas if p.name == name), None) or personas[0]
TargetOf(directive, ps) ==
    LET name == Get(directive, "speaker")
        hits == { i \in DOMAIN ps : IsStr(name) /\ ps[i].name = name.v }
    IN IF hits # {} THEN CHOOSE i \in hits : \A j \in hits : i <= j ELSE 1

WrapUpEntry ==
    [type |-> "wrap_up", speaker |-> "Moderator",
     content |-> <<"Thank you all for the insightful discussion.">>]

GenericQuestion == <<"What stands out to you regarding ", topic>>

\* the entries one directive makes the loop append: order and replies are
\* the draws of _get_participant_responses, reply the act() of a single turn
Execute(directive, ps, order, replies, reply) ==
    LET action == ActionOf(directive)
    IN CASE action = "end" -> << >>
         [] action = "wrap_up" -> << WrapUpEntry >>
         [] action = "ask_question" ->
                << QuestionEntry(QuestionOf(directive), "agentic_flow") >>
                \o _get_participant_responses(ps, order, replies)
         [] action \in {"participant_turn", "interrupt"} ->
                << [type |-> IF action = "participant_turn"
                             THEN "response" ELSE "interaction",
                    speaker |-> ps[TargetOf(directive, ps)].name,
                    content |-> reply] >>
         [] OTHER ->
                << QuestionEntry(GenericQuestion, "agentic_flow") >>
                \o _get_participant_responses(ps, order, replies)

\* the directives after which the while loop breaks
Breaks(directive) == ActionOf(directive) \in {"end", "wrap_up"}

\* whether the directive makes the loop draw a speaking order
AsksGroup(directive) ==
    ActionOf(directive) \notin {"end", "wrap_up", "participant_turn", "interrupt"}

Act(a) == KV("action", JStr(a))

\* objects the service may return to the Coordinator
AskObjects ==
    { Directive(<< Act("ask_question"),
                   KV("moderator_question", JText(<<"How do you choose a product?">>)) >>),
      Directive(<< Act("ask_question"), KV("moderator_question", JText(<< >>)) >>),
      Directive(<< Act("ask_question") >>) }

TurnObjects ==
    { Directive(<< Act(a) >> \o sp) :
        a \in {"participant_turn", "interrupt"},
        sp \in { << KV("speaker", JStr("Rahul")) >>,
                 << KV("speaker", JStr("Nobody")) >>,
                 << >> } }

StopObjects ==
    { Directive(<< Act(a) >>) : a \in {"end", "wrap_up", "END", "Wrap_Up"} }

OddObjects ==
    { Directive(<< >>),
      Directive(<< Act("") >>),
      Directive(<< Act("dance") >>),
      Directive(<< KV("action", JNull) >>),
      Directive(<< KV("action", JNum("0")) >>),
      Directive(<< KV("action", JNum("42")) >>) }

Filler == Directive(<< Act("participant_turn"), KV("speaker", JStr("Aditi")) >>)

\* every reply of the service to a Coordinator request
CoordinatorReplies ==
    { Reply("json", d) : d \in AskObjects \cup TurnObjects \cup StopObjects
                                 \cup OddObjects \cup {Filler} }
    \cup { Reply("prose", Directive(<< Act("interrupt"), KV("speaker", JStr("Priya")) >>)),
           Reply("json", JList(<< >>)),
           Reply("json", JNum("7")),
           Reply("text", JNull) }

\* the replies drawn after the first MaxFree turns: those that end the
\* loop, and one that continues it
LateReplies ==
    { Reply("json", d) : d \in {Filler, Directive(<< Act("end") >>),
                                Directive(<< Act("wrap_up") >>),
                                Directive(<< KV("action", JNum("42")) >>)} }
    \cup { Reply("json", JList(<< >>)) }

(***************************************************************************)
(* The phase flow: group dynamics, follow-ups and transitions.             *)
(***************************************************************************)
interaction_types == <<"agreement", "disagreement", "curiosity", "clarification">>

InteractionContent(kind, name) ==
    CASE kind = "agreement"    -> <<"Yes, exactly! I completely agree with ", name>>
      [] kind = "disagreement" -> <<"I have to respectfully disagree with ", name>>
      [] kind = "curiosity"    -> <<"That's interesting, can you tell me more, ", name>>
      [] OTHER                 -> <<"Could you clarify what you meant, ", name>>

NoDynamics == [hit |-> FALSE]
Dynamics(a, b, kind) == [hit |-> TRUE, a |-> a, b |-> b, kind |-> kind]

\* _create_group_dynamics: nothing unless random.random() > 0.6; else one
\* interaction entry between two sampled personas
_create_group_dynamics(ps, dyn) ==
    IF ~dyn.hit THEN << >>
    ELSE << [type |-> "interaction", speaker |-> ps[dyn.a].name,
             content |-> InteractionContent(dyn.kind, ps[dyn.b].name),
             interaction_type |-> dyn.kind, target |-> ps[dyn.b].name] >>

phrases ==
    << "That's fascinating, tell me more about that.",
       "I'm seeing some head nods - what do others think?",
       "Let's pause there and hear from someone who hasn't spoken yet.",
       "I notice some different reactions - let's explore that.",
       "Before we move on, does anyone want to build on what was shared?" >>

\* _generate_moderator_follow_up: None when there are no responses or
\* random.random() > 0.7; fu = 0 stands for that draw, fu = k for phrase k
_generate_moderator_follow_up(responses, fu) ==
    IF responses = << >> \/ fu = 0 THEN << >>
    ELSE << [type |-> "moderator_follow_up", speaker |-> "Moderator",
             content |-> <<phrases[fu]>>] >>

\* _create_phase_transition: the five phases that have a transition line
TransitionPhases ==
    {"opening_questions", "exploration_questions", "deep_dive_questions",
     "comparison_questions", "future_focused_questions"}

_create_phase_transition(phase_name) ==
    IF phase_name \in TransitionPhases
    THEN << [type |-> "transition", speaker |-> "Moderator",
             content |-> <<"transition after ", phase_name>>] >>
    ELSE << >>

Identity(ps) == [i \in DOMAIN ps |-> i]
Reversal(ps) == [i \in DOMAIN ps |-> Len(ps) + 1 - i]

AllDynamics(ps) ==
    { Dynamics(a, b, interaction_types[k]) :
        a \in DOMAIN ps, b \in DOMAIN ps, k \in DOMAIN interaction_types }
    \ { Dynamics(a, a, interaction_types[k]) :
        a \in DOMAIN ps, k \in DOMAIN interaction_types }

Draw(order, dyn, fu) == [order |-> order, dyn |-> dyn, fu |-> fu]

\* the random draws of one phase question.  Among the first MaxFree
\* questions: every combination of {identity, reversal} x {no interaction,
\* one interaction} x {no follow-up, first phrase}, and every other value
\* of one draw with the other two at their first value; afterwards the
\* first value of each.
QuestionDraws(ps, free) ==
    IF ~free THEN { Draw(Identity(ps), NoDynamics, 0) }
    ELSE { Draw(o, d, f) :
             o \in {Identity(ps), Reversal(ps)},
             d \in {NoDynamics, Dynamics(1, 2, "agreement")},
             f \in {0, 1} }
         \cup { Draw(o, NoDynamics, 0) : o \in Perms(ps) }
         \cup { Draw(Identity(ps), d, 0) : d \in AllDynamics(ps) }
         \cup { Draw(Identity(ps), NoDynamics, f) : f \in DOMAIN phrases }

\* the replies of the n speakers of one question
GroupReplies(ps) == [DOMAIN ps -> ActReplies]

\* as PhaseQuestion, the follow-up put before the group dynamics
PhaseQuestionFollowUpFirst(question, phase_name, ps, draw, replies) ==
    LET responses == _get_participant_responses(ps, draw.order, replies)
    IN << QuestionEntry(question, phase_name) >>
       \o responses
       \o _generate_moderator_follow_up(responses, draw.fu)
       \o _create_group_dynamics(ps, draw.dyn)

\* _conduct_discussion_phase, one iteration of `for question in questions`
PhaseQuestion(question, phase_name, ps, draw, replies) ==
    LET responses == _get_participant_responses(ps, draw.order, replies)
    IN << QuestionEntry(question, phase_name) >>
       \o responses
       \o _create_group_dynamics(ps, draw.dyn)
       \o _generate_moderator_follow_up(responses, draw.fu)

(***************************************************************************)
(* QAAssistantAgent.                                                       *)
(***************************************************************************)
\* A question: its text, the text as characters, the keywords of
\* _categorize_question that occur in question.lower() as substrings, and
\* the persona names that occur in it
Question(text, chars, has, names) ==
    [text |-> text, chars |-> chars, has |-> has, names |-> names]

Questions ==
    {
      Question("What did Rahul say about price?",
               <<"W", "h", "a", "t", " ", "d", "i", "d", " ", "R", "a", "h", "u", "l", " ", "s", "a", "y", " ", "a", "b", "o", "u", "t", " ", "p", "r", "i", "c", "e", "?">>,
               {"what did"}, {"Rahul"}),
      Question("Who talked most?",
               <<"W", "h", "o", " ", "t", "a", "l", "k", "e", "d", " ", "m", "o", "s", "t", "?">>,
               {"who"}, {}),
      Question("What were the main themes discussed?",
               <<"W", "h", "a", "t", " ", "w", "e", "r", "e", " ", "t", "h", "e", " ", "m", "a", "i", "n", " ", "t", "h", "e", "m", "e", "s", " ", "d", "i", "s", "c", "u", "s", "s", "e", "d", "?">>,
               {"theme", "discuss", "main"}, {}),
      Question("What drives the purchase decision?",
               <<"W", "h", "a", "t", " ", "d", "r", "i", "v", "e", "s", " ", "t", "h", "e", " ", "p", "u", "r", "c", "h", "a", "s", "e", " ", "d", "e", "c", "i", "s", "i", "o", "n", "?">>,
               {"purchase", "decision", "drive"}, {}),
      Question("How engaged were the personality types?",
               <<"H", "o", "w", " ", "e", "n", "g", "a", "g", "e", "d", " ", "w", "e", "r", "e", " ", "t", "h", "e", " ", "p", "e", "r", "s", "o", "n", "a", "l", "i", "t", "y", " ", "t", "y", "p", "e", "s", "?">>,
               {"age", "personality", "type"}, {}),
      Question("How do people feel?",
               <<"H", "o", "w", " ", "d", "o", " ", "p", "e", "o", "p", "l", "e", " ", "f", "e", "e", "l", "?">>,
               {"feel"}, {}),
      Question("Compare online versus offline",
               <<"C", "o", "m", "p", "a", "r", "e", " ", "o", "n", "l", "i", "n", "e", " ", "v", "e", "r", "s", "u", "s", " ", "o", "f", "f", "l", "i", "n", "e">>,
               {"compare", "versus"}, {}),
      Question("Any recommendations?",
               <<"A", "n", "y", " ", "r", "e", "c", "o", "m", "m", "e", "n", "d", "a", "t", "i", "o", "n", "s", "?">>,
               {"recommend"}, {}),
      Question("Tell me something",
               <<"T", "e", "l", "l", " ", "m", "e", " ", "s", "o", "m", "e", "t", "h", "i", "n", "g">>,
               {}, {}),
      Question("Tell me about the price",
               <<"T", "e", "l", "l", " ", "m", "e", " ", "a", "b", "o", "u", "t", " ", "t", "h", "e", " ", "p", "r", "i", "c", "e">>,
               {}, {}) }

\* the keyword groups of _categorize_question, in the order they are tried
CategoryKeywords ==
    << [category |-> "participant_specific",
        words |-> {"who", "which participant", "what did", "how did"}],
       [category |-> "theme_analysis",
        words |-> {"theme", "topic", "discuss", "main", "primary"}],
       [category |-> "behavioral_insights",
        words |-> {"buy", "purchase", "decision", "behavior", "drive", "motivate"}],
       [category |-> "demographic_analysis",
        words |-> {"age", "demographic", "personality", "type", "group"}],
       [category |-> "sentiment_analysis",
        words |-> {"sentiment", "feel", "opinion", "positive", "negative", "reaction"}],
       [category |-> "comparative_analysis",
        words |-> {"compare", "difference", "versus", "vs", "contrast"}],
       [category |-> "actionable_insights",
        words |-> {"recommend", "suggest", "opportunity", "action", "next step"}] >>

\* _categorize_question: the first group with a keyword in the question
_categorize_question(q) ==
    LET hits == { i \in DOMAIN CategoryKeywords :
                    CategoryKeywords[i].words \cap q.has # {} }
    IN IF hits = {} THEN "general"
       ELSE CategoryKeywords[CHOOSE i \in hits : \A j \in hits : i <= j].category

(***************************************************************************)
(* SummaryGeneratorAgent: the transcript organizer.                        *)
(***************************************************************************)
\* entry.get(field, default)
Field(entry, field, default) ==
    IF field \in DOMAIN entry THEN entry[field] ELSE default

\* organized = {...}: the empty organized data.  Dicts keep insertion
\* order and are sequences here: participants of buckets, phases of names.
\* current_phase is the local of the pass (None is "None"); the word
\* counts and the topic extracted from the setup entry are left out.
EmptyOrganized ==
    [participants |-> << >>, responses |-> << >>, interactions |-> << >>,
     questions |-> << >>, phases |-> << >>, setup_entries |-> << >>,
     total_exchanges |-> 0, current_phase |-> "None"]

\* speaker in organized["participants"]
HasBucket(participants, speaker) ==
    \E i \in DOMAIN participants : participants[i].name = speaker

\* "Track participants": a bucket the first time a speaker other than
\* Moderator and System appears, on whatever type of entry
TrackParticipant(participants, entry) ==
    LET speaker == Field(entry, "speaker", "Unknown")
    IN IF speaker \notin {"Moderator", "System"} /\ ~HasBucket(participants, speaker)
       THEN Append(participants,
                   [name |-> speaker, responses |-> << >>, interactions |-> << >>,
                    personality_type |-> Field(entry, "personality_type", "unknown"),
                    speaking_count |-> 0])
       ELSE participants

\* as AddResponse, without counting the response
AddResponseUncounted(participants, speaker, response_data) ==
    [i \in DOMAIN participants |->
        IF participants[i].name = speaker
        THEN [participants[i] EXCEPT !.responses = Append(@, response_data)]
        ELSE participants[i]]

\* organized["participants"][speaker]["responses"].append(response_data)
\* and speaking_count += 1, when the speaker has a bucket
AddResponse(participants, speaker, response_data) ==
    [i \in DOMAIN participants |->
        IF participants[i].name = speaker
        THEN [participants[i] EXCEPT !.responses = Append(@, response_data),
                                     !.speaking_count = @ + 1]
        ELSE participants[i]]

AddInteraction(participants, speaker, interaction_data) ==
    [i \in DOMAIN participants |->
        IF participants[i].name = speaker
        THEN [participants[i] EXCEPT !.interactions = Append(@, interaction_data)]
        ELSE participants[i]]

\* as LinkToQuestion, linking to the first question of the transcript
LinkToFirstQuestion(questions, response_data) ==
    IF questions # << >>
    THEN [questions EXCEPT ![1].responses = Append(@, response_data)]
    ELSE questions

\* "Link to current question": organized["questions"][-1]["responses"]
LinkToQuestion(questions, response_data) ==
    IF questions # << >>
    THEN [questions EXCEPT ![Len(questions)].responses = Append(@, response_data)]
    ELSE questions

\* one iteration of `for entry in transcript`
OrganizeEntry(org, entry) ==
    LET entry_type == Field(entry, "type", "unknown")
        speaker == Field(entry, "speaker", "Unknown")
        content == Field(entry, "content", << >>)
        tracked == TrackParticipant(org.participants, entry)
        o1 == [org EXCEPT !.participants = tracked,
                          !.setup_entries = IF entry_type = "setup"
                                            THEN Append(@, entry) ELSE @]
        o2 == CASE entry_type = "question" ->
                     [o1 EXCEPT !.questions =
                                   Append(@, [question |-> content,
                                              phase |-> Field(entry, "phase", "unknown"),
                                              responses |-> << >>]),
                                !.current_phase = Field(entry, "phase", "unknown")]
                [] entry_type = "response" /\ speaker # "Moderator" ->
                     LET response_data ==
                             [speaker |-> speaker, content |-> content,
                              phase |-> o1.current_phase,
                              timestamp |-> Field(entry, "timestamp", "None")]
                     IN [o1 EXCEPT !.responses = Append(@, response_data),
                                   !.participants = AddResponse(@, speaker, response_data),
                                   !.questions = LinkToQuestion(@, response_data),
                                   !.total_exchanges = @ + 1]
                [] entry_type = "interaction" ->
                     LET interaction_data ==
                             [speaker |-> speaker, content |-> content,
                              type |-> Field(entry, "interaction_type", "general"),
                              target |-> Field(entry, "target", "None"),
                              timestamp |-> Field(entry, "timestamp", "None")]
                     IN [o1 EXCEPT !.interactions = Append(@, interaction_data),
                                   !.participants = AddInteraction(@, speaker, interaction_data)]
                [] OTHER -> o1
    IN IF o2.current_phase \notin {"None", ""}
          /\ \A i \in DOMAIN o2.phases : o2.phases[i] # o2.current_phase
       THEN [o2 EXCEPT !.phases = Append(@, o2.current_phase)]
       ELSE o2

\* _organize_transcript_data: a single pass over the transcript
\* the loop from entry i on, organized being org so far (total_exchanges
\* never exceeds the number of entries seen; reading it evaluates org
\* before the next iteration)
RECURSIVE OrganizeFrom(_, _, _)
OrganizeFrom(org, transcript_, i) ==
    IF org.total_exchanges < i /\ i > Len(transcript_) THEN org
    ELSE OrganizeFrom(OrganizeEntry(org, transcript_[i]), transcript_, i + 1)

_organize_transcript_data(transcript_) == OrganizeFrom(EmptyOrganized, transcript_, 1)

(***************************************************************************)
(* Text: a Python str is a sequence of one-character strings.              *)
(***************************************************************************)
\* the characters U+20B9 (rupee sign) and U+2022 (bullet)
Rupee == "(rupee)"
Bullet == "(bullet)"

UpperCase == <<"A", "B", "C", "D", "E", "F", "G", "H", "I", "J", "K", "L", "M", "N", "O", "P", "Q", "R", "S", "T", "U", "V", "W", "X", "Y", "Z">>
LowerCase == <<"a", "b", "c", "d", "e", "f", "g", "h", "i", "j", "k", "l", "m", "n", "o", "p", "q", "r", "s", "t", "u", "v", "w", "x", "y", "z">>

\* str.lower()
lower(s) ==
    [i \in DOMAIN s |->
        IF \E k \in DOMAIN UpperCase : UpperCase[k] = s[i]
        THEN LowerCase[CHOOSE k \in DOMAIN UpperCase : UpperCase[k] = s[i]]
        ELSE s[i]]

\* w in s
Contains(s, w) ==
    \E i \in 0..(Len(s) - Len(w)) : SubSeq(s, i + 1, i + Len(w)) = w

\* any(w in s for w in words)
ContainsAny(s, words) == \E w \in words : Contains(s, w)

\* sum(1 for w in words if w in s)
CountContained(s, words) == Cardinality({ w \in words : Contains(s, w) })

\* " ".join(parts)
RECURSIVE Join(_)
Join(parts) ==
    IF parts = << >> THEN << >>
    ELSE IF Len(parts) = 1 THEN parts[1]
    ELSE parts[1] \o <<" ">> \o Join(Tail(parts))

\* content[:147] + "..." when len(content) > limit
Truncate(content, limit) ==
    IF Len(content) > limit
    THEN SubSeq(content, 1, limit - 3) \o <<".", ".", ".">>
    ELSE content

(***************************************************************************)
(* SummaryGeneratorAgent: the sections of the default summary.             *)
(***************************************************************************)
emotional_words ==
    {
      <<"l", "o", "v", "e">>, <<"h", "a", "t", "e">>, <<"a", "m", "a", "z", "i", "n", "g">>,
      <<"t", "e", "r", "r", "i", "b", "l", "e">>, <<"p", "e", "r", "f", "e", "c", "t">>, <<"a", "w", "f", "u", "l">>,
      <<"e", "x", "c", "i", "t", "e", "d">>, <<"d", "i", "s", "a", "p", "p", "o", "i", "n", "t", "e", "d">> }

DetailIndicators ==
    {
      << Rupee >>, <<"r", "u", "p", "e", "e", "s">>, <<"c", "o", "s", "t">>,
      <<"p", "r", "i", "c", "e">>, <<"b", "r", "a", "n", "d">>, <<"p", "r", "o", "d", "u", "c", "t">> }

personal_indicators ==
    {
      <<"m", "y", " ", "e", "x", "p", "e", "r", "i", "e", "n", "c", "e">>, <<"i", " ", "f", "o", "u", "n", "d">>,
      <<"i", " ", "t", "r", "i", "e", "d">>, <<"i", " ", "b", "o", "u", "g", "h", "t">>,
      <<"i", " ", "u", "s", "e">> }

\* as _calculate_quote_impact, the length bonus given to short quotes
ImpactPreferringShort(content) ==
    LET content_lower == lower(content)
    IN 2 * CountContained(content_lower, emotional_words)
       + (IF ContainsAny(content_lower, DetailIndicators) THEN 3 ELSE 0)
       + 2 * CountContained(content_lower, personal_indicators)
       + (IF Len(content) < 50 THEN 2
          ELSE IF Len(content) > 200 THEN -1 ELSE 0)

\* _calculate_quote_impact
_calculate_quote_impact(content) ==
    LET content_lower == lower(content)
    IN 2 * CountContained(content_lower, emotional_words)
       + (IF ContainsAny(content_lower, DetailIndicators) THEN 3 ELSE 0)
       + 2 * CountContained(content_lower, personal_indicators)
       + (IF 50 <= Len(content) /\ Len(content) <= 200 THEN 2
          ELSE IF Len(content) > 200 THEN -1 ELSE 0)

\* the opinion indicators that make a response a quote candidate
OpinionIndicators ==
    {
      <<"i", " ", "l", "o", "v", "e">>, <<"i", " ", "h", "a", "t", "e">>,
      <<"i", " ", "w", "i", "s", "h">>, <<"i", " ", "n", "e", "e", "d">>,
      <<"i", " ", "w", "a", "n", "t">>, <<"i", " ", "t", "h", "i", "n", "k">>,
      <<"i", " ", "b", "e", "l", "i", "e", "v", "e">>, <<"m", "y", " ", "e", "x", "p", "e", "r", "i", "e", "n", "c", "e">>,
      <<"i", " ", "f", "o", "u", "n", "d">>, <<"i", " ", "n", "o", "t", "i", "c", "e", "d">>,
      <<"i", " ", "p", "r", "e", "f", "e", "r">>, <<"i", " ", "a", "v", "o", "i", "d">> }

\* quote_candidates, in transcript order
QuoteCandidates(responses) ==
    LET opinions == SelectSeq(responses,
                              LAMBDA r : ContainsAny(lower(r.content), OpinionIndicators))
    IN [i \in DOMAIN opinions |->
          [speaker |-> opinions[i].speaker, content |-> opinions[i].content,
           impact_score |-> _calculate_quote_impact(opinions[i].content)]]

\* quote_candidates.sort(key=impact_score, reverse=True): a stable sort
RECURSIVE SortByImpact(_)
SortByImpact(candidates) ==
    IF candidates = << >> THEN << >>
    ELSE LET best == CHOOSE i \in DOMAIN candidates :
                       /\ \A j \in DOMAIN candidates :
                            candidates[j].impact_score <= candidates[i].impact_score
                       /\ \A j \in 1..(i - 1) :
                            candidates[j].impact_score < candidates[i].impact_score
         IN << candidates[best] >>
            \o SortByImpact(SubSeq(candidates, 1, best - 1)
                            \o SubSeq(candidates, best + 1, Len(candidates)))

Quote(speaker, content) ==
    [speaker |-> speaker,
     quote |-> <<"\"">> \o Truncate(content, 150) \o <<"\"">>,
     context |-> "During focus group discussion"]

\* the selection loop: one quote per speaker, up to three; the state is
\* the quotes selected and the speakers used so far
RECURSIVE SelectQuotes(_, _, _)
SelectQuotes(candidates, selected_quotes, used_speakers) ==
    IF candidates = << >> \/ Len(selected_quotes) >= 3
    THEN [selected_quotes |-> selected_quotes, used_speakers |-> used_speakers]
    ELSE LET candidate == Head(candidates)
         IN IF candidate.speaker \notin used_speakers
            THEN SelectQuotes(Tail(candidates),
                              Append(selected_quotes,
                                     Quote(candidate.speaker, candidate.content)),
                              used_speakers \cup {candidate.speaker})
            ELSE SelectQuotes(Tail(candidates), selected_quotes, used_speakers)

\* the fallback loop over responses[-2:]: used_speakers is consulted but
\* not added to; the break is reached only after an append
RECURSIVE FallbackQuotes(_, _, _)
FallbackQuotes(last, selected_quotes, used_speakers) ==
    IF last = << >> THEN selected_quotes
    ELSE LET response_ == Head(last)
         IN IF response_.speaker \notin used_speakers
            THEN LET more == Append(selected_quotes,
                                    Quote(response_.speaker, response_.content))
                 IN IF Len(more) >= 3 THEN more
                    ELSE FallbackQuotes(Tail(last), more, used_speakers)
            ELSE FallbackQuotes(Tail(last), selected_quotes, used_speakers)

\* s[-n:]
LastN(s, n) == IF Len(s) <= n THEN s ELSE SubSeq(s, Len(s) - n + 1, Len(s))

\* s[:n]
FirstN(s, n) == IF Len(s) <= n THEN s ELSE SubSeq(s, 1, n)

\* _generate_supporting_quotes
_generate_supporting_quotes(organized) ==
    LET responses == organized.responses
        picked == SelectQuotes(SortByImpact(QuoteCandidates(responses)), << >>, {})
        selected_quotes ==
            IF Len(picked.selected_quotes) < 2 /\ responses # << >>
            THEN FallbackQuotes(LastN(responses, 2), picked.selected_quotes,
                                picked.used_speakers)
            ELSE picked.selected_quotes
    IN FirstN(selected_quotes, 3)

\* r["content"] of all responses joined by spaces, lower-cased
AllContent(responses) ==
    lower(Join([i \in DOMAIN responses |-> responses[i].content]))

\* _assess_price_sensitivity: price_mentions > len(responses) * 0.3
_assess_price_sensitivity(responses) ==
    LET price_mentions ==
            Cardinality({ i \in DOMAIN responses :
                            ContainsAny(lower(responses[i].content),
                                        { <<"p", "r", "i", "c", "e">>, <<"c", "o", "s", "t">> }) })
    IN IF 10 * price_mentions > 3 * Len(responses) THEN "High" ELSE "Medium"

\* len(set(p.get("personality_type") for p in participants.values()))
PersonalityTypes(participants) ==
    { participants[i].personality_type : i \in DOMAIN participants }

\* the insights gated by keywords and by personality diversity, in order
GatedInsights(organized) ==
    LET all_content == AllContent(organized.responses)
    IN (IF ContainsAny(all_content, { <<"p", "r", "i", "c", "e">>, <<"b", "u", "d", "g", "e", "t">>, <<"c", "o", "s", "t">> })
        THEN << IF _assess_price_sensitivity(organized.responses) = "High"
                THEN "price_transparency" ELSE "quality_over_price" >>
        ELSE << >>)
       \o (IF ContainsAny(all_content, { <<"t", "r", "u", "s", "t">>, <<"r", "e", "v", "i", "e", "w">>, <<"e", "x", "p", "e", "r", "i", "e", "n", "c", "e">> })
           THEN << "peer_recommendations" >> ELSE << >>)
       \o (IF ContainsAny(all_content, { <<"o", "n", "l", "i", "n", "e">>, <<"a", "p", "p">>, <<"w", "e", "b", "s", "i", "t", "e">> })
           THEN << "digital_first" >> ELSE << >>)
       \o (IF ContainsAny(all_content, { <<"b", "r", "a", "n", "d">>, <<"q", "u", "a", "l", "i", "t", "y">> })
           THEN << "brand_reputation" >> ELSE << >>)
       \o (IF Cardinality(PersonalityTypes(organized.participants)) >= 4
           THEN << "tailored_approaches" >> ELSE << >>)

FillerInsights == << "authentic_experiences", "word_of_mouth", "convenience" >>

\* as _generate_key_insights, without the filler sentences
InsightsUnpadded(organized) == FirstN(GatedInsights(organized), 5)

\* _generate_key_insights: each insight is named by its subject
_generate_key_insights(organized) ==
    LET insights == GatedInsights(organized)
    IN FirstN(IF Len(insights) < 3 THEN insights \o FillerInsights ELSE insights, 5)

\* generate_summary: the sections this model follows
\* the follow-up actions of the default summary, by their opening words
SurveyStep == "Conduct quantitative survey"
PrototypeStep == "Develop prototype or concept"
PriceStep == "Conduct price sensitivity analysis"
JourneyStep == "Create user journey maps"
PrioritizeStep == "Prioritize recommendations"

\* the list of _generate_next_steps_content, whatever the discussion
NextStepsWhateverSaid(organized) ==
    << SurveyStep, PrototypeStep, JourneyStep, PrioritizeStep >>

\* _generate_next_steps: the survey with five participants or more, the
\* price analysis when "price" occurs in the joined responses, cut at four
_generate_next_steps(organized) ==
    LET responses == organized.responses
        participants == organized.participants
        research == IF Len(participants) >= 5 THEN << SurveyStep >> ELSE << >>
        market == IF Contains(AllContent(responses), <<"p", "r", "i", "c", "e">>)
                  THEN << PriceStep >> ELSE << >>
    IN FirstN(research \o << PrototypeStep >> \o market
                  \o << JourneyStep, PrioritizeStep >>, 4)

generate_summary(transcript_) ==
    LET organized == _organize_transcript_data(transcript_)
    IN [metadata |-> [total_participants |-> Len(organized.participants),
                      total_exchanges |-> organized.total_exchanges,
                      summary_schema_version |-> "2.0"],
        key_insights |-> _generate_key_insights(organized),
        supporting_quotes |-> _generate_supporting_quotes(organized),
        next_steps |-> _generate_next_steps(organized)]

(***************************************************************************)
(* CustomSummaryGeneratorAgent: the outline parser and the custom summary. *)
(***************************************************************************)
Whitespace == {" ", "\t"}
Digits == {"0", "1", "2", "3", "4", "5", "6", "7", "8", "9"}

\* \w of the regular expressions, on the characters of the model
WordChars == { UpperCase[i] : i \in DOMAIN UpperCase }
             \cup { LowerCase[i] : i \in DOMAIN LowerCase } \cup Digits \cup {"_"}

\* str.lstrip(), str.strip()
RECURSIVE lstrip(_)
lstrip(s) == IF s # << >> /\ Head(s) \in Whitespace THEN lstrip(Tail(s)) ELSE s

RECURSIVE rstrip(_)
rstrip(s) ==
    IF s # << >> /\ s[Len(s)] \in Whitespace THEN rstrip(SubSeq(s, 1, Len(s) - 1)) ELSE s

strip(s) == rstrip(lstrip(s))

\* s[n:]
From(s, n) == SubSeq(s, n, Len(s))

\* schema.split('\n')
RECURSIVE Split(_)
Split(s) ==
    IF \E i \in DOMAIN s : s[i] = "\n"
    THEN LET at == CHOOSE i \in DOMAIN s : s[i] = "\n" /\ \A j \in 1..(i - 1) : s[j] # "\n"
         IN << SubSeq(s, 1, at - 1) >> \o Split(From(s, at + 1))
    ELSE << s >>

\* as SectionKey, keeping the characters that are not word characters
SectionKeyUnstripped(title) ==
    LET lowered == lower(title)
    IN [i \in DOMAIN lowered |-> IF lowered[i] = " " THEN "_" ELSE lowered[i]]

\* title.lower().replace(' ', '_').replace('&', 'and'), then
\* re.sub(r'[^\w]', '', section_key)
RECURSIVE ReplaceAmpersand(_)
ReplaceAmpersand(s) ==
    IF s = << >> THEN << >>
    ELSE (IF Head(s) = "&" THEN <<"a", "n", "d">> ELSE << Head(s) >>)
         \o ReplaceAmpersand(Tail(s))

SectionKey(title) ==
    LET lowered == lower(title)
        underscored == [i \in DOMAIN lowered |->
                          IF lowered[i] = " " THEN "_" ELSE lowered[i]]
    IN SelectSeq(ReplaceAmpersand(underscored), LAMBDA c : c \in WordChars)

\* the number of leading digits of a line
RECURSIVE LeadingDigits(_)
LeadingDigits(s) ==
    IF s # << >> /\ Head(s) \in Digits THEN 1 + LeadingDigits(Tail(s)) ELSE 0

\* x matches \s*-\s*(.+)
MatchesDash(x) == LET y == lstrip(x) IN Len(y) >= 2 /\ y[1] = "-"

\* re.match(r'^(\d+)\.\s*(.+?)(?:\s*-\s*(.+))?$', line) on a stripped line:
\* the title is the shortest text after which the line ends or a dash part
\* follows
NumberedMatch(line) ==
    LET d == LeadingDigits(line)
    IN IF d >= 1 /\ Len(line) >= d + 2 /\ line[d + 1] = "." /\ lstrip(From(line, d + 2)) # << >>
       THEN LET rest == lstrip(From(line, d + 2))
                ends == { p \in DOMAIN rest :
                            p = Len(rest) \/ MatchesDash(From(rest, p + 1)) }
                p == CHOOSE q \in ends : \A r \in ends : q <= r
                after == lstrip(From(rest, p + 1))
            IN [matched |-> TRUE, number |-> SubSeq(line, 1, d),
                title |-> strip(SubSeq(rest, 1, p)),
                description |-> IF p = Len(rest) THEN << >>
                                ELSE strip(From(after, 2))]
       ELSE [matched |-> FALSE]

Section(number, title, description, line) ==
    [number |-> number, title |-> title, description |-> description,
     key |-> SectionKey(title), original_line |-> line]

\* _parse_schema, one iteration of `for line in lines`; the number of a
\* bullet section is its position, kept as an integer here
ParseLine(sections, raw) ==
    LET line == strip(raw)
        m == NumberedMatch(line)
    IN IF line = << >> THEN sections
       ELSE IF m.matched
            THEN Append(sections, Section(m.number, m.title, m.description, line))
       ELSE IF Head(line) \in {"-", Bullet}
            THEN Append(sections,
                        Section(Len(sections) + 1, strip(Tail(line)), << >>, line))
       ELSE sections

RECURSIVE ParseLines(_, _)
ParseLines(sections, lines) ==
    IF lines = << >> THEN sections
    ELSE ParseLines(ParseLine(sections, Head(lines)), Tail(lines))

\* _parse_schema
_parse_schema(schema_) == ParseLines(<< >>, Split(schema_))

\* the keyword groups of _generate_section_content, in the order tried
SectionGenerators ==
    << [generator |-> "objective",
        words |-> { <<"o", "b", "j", "e", "c", "t", "i", "v", "e">>, <<"p", "u", "r", "p", "o", "s", "e">>, <<"g", "o", "a", "l">> }],
       [generator |-> "participant",
        words |-> { <<"p", "a", "r", "t", "i", "c", "i", "p", "a", "n", "t">>, <<"d", "e", "m", "o", "g", "r", "a", "p", "h", "i", "c">>, <<"s", "a", "m", "p", "l", "e">> }],
       [generator |-> "insights",
        words |-> { <<"i", "n", "s", "i", "g", "h", "t">>, <<"f", "i", "n", "d", "i", "n", "g">>, <<"t", "h", "e", "m", "e">>, <<"k", "e", "y">> }],
       [generator |-> "quotes",
        words |-> { <<"q", "u", "o", "t", "e">>, <<"v", "e", "r", "b", "a", "t", "i", "m">>, <<"s", "t", "a", "t", "e", "m", "e", "n", "t">> }],
       [generator |-> "recommendations",
        words |-> { <<"r", "e", "c", "o", "m", "m", "e", "n", "d">>, <<"o", "p", "p", "o", "r", "t", "u", "n", "i", "t", "y">>, <<"s", "u", "g", "g", "e", "s", "t", "i", "o", "n">> }],
       [generator |-> "next_steps",
        words |-> { <<"n", "e", "x", "t">>, <<"f", "u", "t", "u", "r", "e">>, <<"f", "o", "l", "l", "o", "w">> }],
       [generator |-> "behavioral",
        words |-> { <<"b", "e", "h", "a", "v", "i", "o", "r">>, <<"p", "u", "r", "c", "h", "a", "s", "e">>, <<"d", "e", "c", "i", "s", "i", "o", "n">>, <<"b", "u", "y", "i", "n", "g">> }],
       [generator |-> "brand",
        words |-> { <<"b", "r", "a", "n", "d">>, <<"c", "o", "m", "p", "e", "t", "i", "t", "i", "v", "e">>, <<"c", "o", "m", "p", "e", "t", "i", "t", "o", "r">> }],
       [generator |-> "marketing",
        words |-> { <<"m", "a", "r", "k", "e", "t", "i", "n", "g">>, <<"m", "e", "s", "s", "a", "g", "e">>, <<"c", "a", "m", "p", "a", "i", "g", "n">>, <<"c", "o", "m", "m", "u", "n", "i", "c", "a", "t", "i", "o", "n">> }],
       [generator |-> "pricing",
        words |-> { <<"p", "r", "i", "c", "e">>, <<"c", "o", "s", "t">>, <<"b", "u", "d", "g", "e", "t">>, <<"p", "r", "i", "c", "i", "n", "g">> }] >>

\* _generate_section_content: the generator of the first group with a word
\* in the lower-cased title, the general one otherwise; the content it
\* builds is named by the generator
_generate_section_content(section) ==
    LET title_lower == lower(section.title)
        hits == { i \in DOMAIN SectionGenerators :
                    ContainsAny(title_lower, SectionGenerators[i].words) }
    IN IF hits = {} THEN "general"
       ELSE SectionGenerators[CHOOSE i \in hits : \A j \in hits : i <= j].generator

MetadataKey == <<"m", "e", "t", "a", "d", "a", "t", "a">>

\* d[key] = value on a dict kept as a sequence of pairs
SetKey(d, key, value) ==
    IF \E i \in DOMAIN d : d[i].k = key
    THEN [i \in DOMAIN d |-> IF d[i].k = key THEN KV(key, value) ELSE d[i]]
    ELSE Append(d, KV(key, value))

\* as SetKey, the first value of a key kept
SetDefault(d, key, value) ==
    IF \E i \in DOMAIN d : d[i].k = key THEN d ELSE Append(d, KV(key, value))

Metadata(schema_, ps) ==
    [summary_type |-> "custom", user_schema |-> schema_, total_participants |-> Len(ps),
     discussion_topic |-> topic]

\* "Fallback: local generation per section"
RECURSIVE FillSections(_, _)
FillSections(custom, sections) ==
    IF sections = << >> THEN custom
    ELSE FillSections(SetKey(custom, Head(sections).key,
                             _generate_section_content(Head(sections))),
                      Tail(sections))

\* generate_custom_summary; out is the outcome of the service call made
\* when the service is enabled and the outline has sections.  The keys of a
\* service reply are of the reply's making; the fallback's keys are text.
generate_custom_summary(en, schema_, ps, out) ==
    LET sections == _parse_schema(schema_)
        llm_json == generate_json_sync(en, out)
    IN IF en /\ sections # << >> /\ ~out.raise /\ IsDict(llm_json) /\ Truthy(llm_json)
       THEN [path |-> "llm",
             pairs |-> SetDefault(llm_json.pairs, "metadata", Metadata(schema_, ps))]
       ELSE [path |-> "fallback",
             pairs |-> FillSections(<< KV(MetadataKey, Metadata(schema_, ps)) >>, sections)]

\* replies of the service to a custom-summary request
SummaryReplies ==
    { ServiceRaises,
      Reply("json", JDict(<< KV("key_insights", JList(<< JText(<<"insight">>) >>)) >>)),
      Reply("json", JDict(<< KV("metadata", JText(<<"mine">>)) >>)),
      Reply("json", JDict(<< >>)),
      Reply("json", JList(<< >>)),
      Reply("text", JNull) }

\* outline lines a user may write
OutlineLines ==
    {
      <<"1", ".", " ", "K", "e", "y", " ", "I", "n", "s", "i", "g", "h", "t", "s">>,
      <<"2", ".", " ", "B", "u", "d", "g", "e", "t", " ", "A", "n", "a", "l", "y", "s", "i", "s", " ", "-", " ", "s", "p", "e", "n", "d", "i", "n", "g", " ", "p", "a", "t", "t", "e", "r", "n", "s">>,
      <<"1", ".", " ", "I", "n", "s", "i", "g", "h", "t", "s">>,
      <<"7", ".", " ", "M", "e", "t", "a", "d", "a", "t", "a">>,
      <<"-", " ", "Q", " ", "&", " ", "A">>,
      <<"3", ".", " ", "a", "\t", "b", "!">>,
      <<"1", ".", " ", "k", "e", "y", "_", "i", "n", "s", "i", "g", "h", "t", "s">>,
      <<"n", "o", "t", "e", "s">>,
      <<"4", ".", " ", "O", "v", "e", "r", "v", "i", "e", "w", " ", "-", " ", "b", "r", "a", "n", "d", " ", "p", "e", "r", "c", "e", "p", "t", "i", "o", "n">>,
      << Bullet, "P", "r", "i", "c", "e" >>,
      <<" ">> }

\* outlines of up to MaxLines lines, joined by newlines
RECURSIVE JoinLines(_)
JoinLines(lines) ==
    IF lines = << >> THEN << >>
    ELSE IF Len(lines) = 1 THEN lines[1]
    ELSE lines[1] \o <<"\n">> \o JoinLines(Tail(lines))

Outlines ==
    UNION { { JoinLines(ls) : ls \in [1..n -> OutlineLines] } : n \in 0..MaxLines }

\* transcripts handed to the organizer: every sequence of up to MaxEntries
\* entries over these types and speakers, stamped in order
EntryTypes == {"question", "response", "interaction"}
EntrySpeakers == {"Moderator", "System", "Aditi", "Rahul"}

EntryKinds ==
    { [type |-> t, speaker |-> sp, content |-> <<"text">>] :
        t \in EntryTypes, sp \in EntrySpeakers }

\* the entry with its timestamp (the position stands for the clock)
Stamp(entry, i) ==
    [type |-> entry.type, speaker |-> entry.speaker, content |-> entry.content,
     timestamp |-> i]

Transcripts ==
    UNION { { [i \in 1..n |-> Stamp(kinds[i], i)] : kinds \in [1..n -> EntryKinds] } :
              n \in 0..MaxEntries }

(***************************************************************************)
(* Requests to the generation service.                                     *)
(***************************************************************************)
\* generate_text_sync / generate_json_sync: `if not self.enabled: return`
\* the fallback, else _chat_completion issues the request
ClientIssuesRequest(en) == en

\* conduct_discussion, "Generate discussion flow": the plan path, the
\* LLM-only path and _generate_discussion_flow; whether a request is issued
FlowIssuesRequest(en, only, plan) ==
    IF plan # "" /\ en THEN ClientIssuesRequest(en)
    ELSE IF only THEN ClientIssuesRequest(en)
    ELSE en /\ ClientIssuesRequest(en)

\* as ActIssuesRequest, act asking the service whatever the backend mode
ActAlwaysIssuesRequest(en) == TRUE

\* TinyPerson.act without the tinytroupe package: `if self._llm.enabled:`
\* generate_text_sync, else _generate_response
ActIssuesRequest(en) == en /\ ClientIssuesRequest(en)

\* answer_question: `if self._llm.enabled:` generate_text_sync
QAIssuesRequest(en) == en /\ ClientIssuesRequest(en)

\* generate_custom_summary: `if self._llm.enabled and schema_sections:`
CustomSummaryIssuesRequest(en, schema_) ==
    en /\ _parse_schema(schema_) # << >> /\ ClientIssuesRequest(en)

\* as _user_prompt, the whole transcript quoted
PromptOfWholeTranscript(topic_, ps, recent_transcript, plan) ==
    [topic |-> topic_, personas |-> ps, plan |-> plan,
     recent |-> [i \in DOMAIN recent_transcript |->
                   << recent_transcript[i].type, recent_transcript[i].speaker,
                      recent_transcript[i].content >>]]

\* propose_next_action: user_prompt, as the parts it is formatted from:
\* the topic, the brief of each persona (name and personality_type; age,
\* occupation and monthly_budget are absent from the personas here), the
\* plan section, and one line "[type|speaker] content" for each of
\* recent_transcript[-12:]
_user_prompt(topic_, ps, recent_transcript, plan) ==
    LET recent == LastN(recent_transcript, 12)
    IN [topic |-> topic_, personas |-> ps, plan |-> plan,
        recent |-> [i \in DOMAIN recent |->
                      << recent[i].type, recent[i].speaker, recent[i].content >>]]

(***************************************************************************)
(* State.                                                                  *)
(***************************************************************************)
VARIABLES
    enabled,            \* LLMClient.enabled
    llm_only,           \* config.llm_only(): the LLM_ONLY environment switch
    plan_text,          \* conduct_discussion argument
    personas,           \* conduct_discussion argument
    pc,                 \* position in conduct_discussion
    exc,                \* the exception that reached the caller, or "none"
    discussion_flow,    \* conduct_discussion local
    full_transcript,    \* conduct_discussion local, returned at the end
    transcript,         \* _run_agentic_loop local
    turn,               \* _run_agentic_loop local
    response,           \* the service's outcome for the last Coordinator request
    directive,          \* _run_agentic_loop local: the last directive
    phase_i,            \* index of the phase the for loop is at
    question_i,         \* index of the question within the phase
    asked,              \* questions asked so far in the phase flow
    phase_transcript,   \* _conduct_discussion_phase local
    session_active,     \* ControlManager.session_active
    current_session,    \* TinyTroupeManager.current_session
    qa_calls,           \* answer_question calls made on the assistant
    qa_question,        \* the question of the last answer_question call
    qa_response,        \* the service's outcome in the last call
    qa_result,          \* what the last call returned
    qa_exc,             \* the exception the last call raised, or "none"
    context_memory,     \* QAAssistantAgent.context_memory: question -> result
    discussion_transcript,  \* generate_summary argument
    organized_data,     \* generate_summary local: the organized transcript
    summary,            \* what generate_summary returned
    schema,             \* generate_custom_summary argument: the outline
    custom_summary,     \* what generate_custom_summary returned
    quote,              \* _calculate_quote_impact argument: the content
    impact,             \* the scores _calculate_quote_impact returned
    max_retries,        \* LLMClient.max_retries
    request,            \* one _chat_completion call: its locals and its outcome
    session_status,     \* main.py: session_data["status"]
    served,             \* main.py: what the last request to an endpoint was served
    service_called,     \* whether a request was issued to the generation service
    coordinator_request \* the prompt of the last propose_next_action call

vars == << enabled, llm_only, plan_text, personas, pc, exc, discussion_flow,
           full_transcript, transcript, turn, response, directive, phase_i,
           question_i, asked, phase_transcript, session_active, current_session,
           qa_calls, qa_question, qa_response, qa_result, qa_exc, context_memory,
           discussion_transcript, organized_data, summary, schema, custom_summary,
           quote, impact, max_retries, request, session_status, served,
           service_called, coordinator_request >>

config == << enabled, llm_only, plan_text, personas >>
loopVars == << transcript, turn, response, directive >>
phaseVars == << phase_i, question_i, asked, phase_transcript >>
sessionVars == << session_active, current_session >>
qaVars == << qa_calls, qa_question, qa_response, qa_result, qa_exc, context_memory >>
storeVars == << session_status, served >>
traceVars == << service_called, coordinator_request >>
summaryVars == << discussion_transcript, organized_data, summary, schema,
                 custom_summary, quote, impact, max_retries, request, storeVars >>
discussionVars == << pc, exc, discussion_flow, full_transcript, loopVars, phaseVars,
                     sessionVars >>

NoDirective == JNull
NoResponse == [raise |-> FALSE, form |-> "none", val |-> JNull]

NoResult == [source_type |-> "none", built |-> FALSE]

\* no discussion started
DiscussionIdle ==
    /\ pc = "idle"
    /\ exc = "none"
    /\ discussion_flow = << >>
    /\ full_transcript = << >>
    /\ transcript = << >>
    /\ turn = 0
    /\ response = NoResponse
    /\ directive = NoDirective
    /\ phase_i = 0
    /\ question_i = 0
    /\ asked = 0
    /\ phase_transcript = << >>
    /\ session_active = FALSE
    /\ current_session = "None"

NoTranscript == << [type |-> "none"] >>
NoOrganized == [EmptyOrganized EXCEPT !.total_exchanges = -1]

NoSummary ==
    [metadata |-> [total_participants |-> -1, total_exchanges |-> -1,
                   summary_schema_version |-> "none"],
     key_insights |-> << >>, supporting_quotes |-> << >>, next_steps |-> << >>]

NoCustomSummary == [path |-> "none", pairs |-> << >>]

\* int(os.getenv("LLM_MAX_RETRIES", "3"))
DefaultMaxRetries == 3

\* no _chat_completion call yet.  log is what the service answered to each
\* attempt, slept the seconds of back-off so far.
NoRequest ==
    [pc |-> "idle", attempt |-> 0, last_err |-> "None", log |-> << >>, slept |-> 0,
     result |-> "", exc |-> "none"]

\* no request served yet
NoServed == [endpoint |-> "none", code |-> 0, transcript |-> << >>]

\* no Coordinator prompt built yet
NoPrompt == [topic |-> "", personas |-> << >>, plan |-> "", recent |-> << >>]

\* no session in the store, no request issued to the service
NoSession ==
    /\ session_status = "none"
    /\ served = NoServed
    /\ service_called = FALSE
    /\ coordinator_request = NoPrompt

\* nothing scored: no content scores so low
NoImpact == [content |-> -100, appended |-> [w \in emotional_words |-> -100],
             prefix |-> -100]

\* no transcript organized, nothing summarized
OrganizerIdle ==
    /\ discussion_transcript = NoTranscript
    /\ organized_data = NoOrganized
    /\ summary = NoSummary
    /\ schema = << >>
    /\ custom_summary = NoCustomSummary
    /\ quote = << >>
    /\ impact = NoImpact
    /\ max_retries = DefaultMaxRetries
    /\ request = NoRequest
    /\ NoSession

\* a fresh QAAssistantAgent
QAIdle ==
    /\ qa_calls = 0
    /\ qa_question = ""
    /\ qa_response = NoResponse
    /\ qa_result = NoResult
    /\ qa_exc = "none"
    /\ context_memory = << >>

Init ==
    /\ enabled \in BOOLEAN
    /\ llm_only \in BOOLEAN
    /\ plan_text \in PlanTexts
    /\ personas \in Rosters
    /\ DiscussionIdle
    /\ QAIdle
    /\ OrganizerIdle

\* TinyTroupeManager.end_session (ControlManager.end when active)
EndSession ==
    /\ session_active' = FALSE
    /\ current_session' = "None"

\* as Raise, without the finally clause
RaiseWithoutFinally(e) ==
    /\ pc' = "raised"
    /\ exc' = e
    /\ UNCHANGED << session_active, current_session >>

\* as Raise, the exception swallowed and the transcript built so far
\* returned
ReturnPartial(e) ==
    /\ pc' = "returned"
    /\ exc' = "none"
    /\ EndSession

\* an exception leaves conduct_discussion: the finally clause ends the
\* session and the caller gets the exception, no transcript
Raise(e) ==
    /\ pc' = "raised"
    /\ exc' = e
    /\ EndSession

(***************************************************************************)
(* conduct_discussion, step by step.                                       *)
(***************************************************************************)
\* start_session, create_personas, create_world, "Generate discussion flow"
StartDiscussion ==
    /\ pc = "idle"
    /\ \E out1, out2 \in FlowReplies :
         LET r == GenerateFlow(enabled, llm_only, plan_text, out1, out2)
         IN IF r.exc # "none"
            THEN /\ Raise(r.exc)
                 /\ UNCHANGED discussion_flow
            ELSE /\ pc' = "opening"
                 /\ discussion_flow' = r.flow
                 /\ session_active' = TRUE
                 /\ current_session' = "discussion"
                 /\ UNCHANGED exc
    /\ service_called' = (service_called
                          \/ FlowIssuesRequest(enabled, llm_only, plan_text))
    /\ UNCHANGED << config, full_transcript, loopVars, phaseVars, qaVars, summaryVars,
                    coordinator_request >>

\* the setup entry, the pre-discussion chatter, and the choice of the body:
\* the agentic loop (its opening phase_start entry) when the service is
\* enabled, else the phases of discussion_flow.  The agentic loop never
\* reads discussion_flow, which is dropped from the state there.
Opening ==
    /\ pc = "opening"
    /\ IF PreDiscussionRaises(personas)
       THEN /\ Raise("IndexError")
            /\ full_transcript' = << SetupEntry(personas) >>
            /\ UNCHANGED << discussion_flow, loopVars, phaseVars >>
       ELSE /\ full_transcript' = << SetupEntry(personas) >>
                                  \o _create_pre_discussion_moments(personas)
            /\ IF enabled
               THEN /\ pc' = "loop"
                    /\ transcript' = << PhaseStartEntry(
                                          <<"Let's begin our discussion about ", topic>>,
                                          "agentic_flow") >>
                    /\ discussion_flow' = << >>
                    /\ UNCHANGED << turn, response, directive, phaseVars >>
               ELSE /\ pc' = IF discussion_flow = << >> THEN "post" ELSE "phases"
                    /\ phase_i' = 1
                    /\ UNCHANGED << discussion_flow, loopVars, question_i, asked,
                                    phase_transcript >>
            /\ UNCHANGED << exc, sessionVars >>
    /\ UNCHANGED << config, qaVars, summaryVars, traceVars >>

\* _run_agentic_loop: one iteration of the while loop; when the iteration
\* breaks or the budget is used up the loop returns and conduct_discussion
\* extends full_transcript with the loop's transcript
AgenticTurn ==
    /\ pc = "loop"
    /\ turn < max_turns
    /\ \E out \in {ServiceRaises} \cup
                  (IF turn < MaxFree THEN CoordinatorReplies ELSE LateReplies) :
         /\ response' = out
         /\ IF out.raise
            THEN /\ Raise("LLMError")
                 /\ turn' = turn + 1
                 /\ UNCHANGED << directive, transcript, full_transcript >>
            ELSE LET d == propose_next_action(enabled, out)
                 IN IF ActionRaises(d)
                    THEN /\ Raise("AttributeError")
                         /\ turn' = turn + 1
                         /\ directive' = d
                         /\ UNCHANGED << transcript, full_transcript >>
                    ELSE \E order \in IF AsksGroup(d) THEN Perms(personas)
                                                     ELSE {Identity(personas)},
                            replies \in GroupReplies(personas),
                            reply \in ActReplies :
                           /\ turn' = turn + 1
                           /\ directive' = d
                           /\ transcript' =
                                transcript \o Execute(d, personas, order, replies, reply)
                           /\ IF Breaks(d) \/ turn' = max_turns
                              THEN /\ pc' = "post"
                                   /\ full_transcript' = full_transcript \o transcript'
                              ELSE /\ pc' = "loop"
                                   /\ UNCHANGED full_transcript
                           /\ UNCHANGED << exc, sessionVars >>
    /\ coordinator_request' = _user_prompt(topic, personas, transcript, plan_text)
    /\ service_called' = (service_called \/ ClientIssuesRequest(enabled))
    /\ UNCHANGED << config, discussion_flow, phaseVars, qaVars, summaryVars >>

\* _conduct_discussion_phase: the phase introduction
BeginPhase ==
    /\ pc = "phases"
    /\ phase_i <= Len(discussion_flow)
    /\ LET phase_name == discussion_flow[phase_i].phase
       IN phase_transcript' =
            << PhaseStartEntry(<<"Let's move into ", phase_name>>, phase_name) >>
    /\ question_i' = 1
    /\ pc' = "questions"
    /\ UNCHANGED << config, exc, discussion_flow, full_transcript, loopVars,
                    phase_i, asked, sessionVars, qaVars, summaryVars, traceVars >>

\* _conduct_discussion_phase: one question with its responses, group
\* dynamics and follow-up
AskPhaseQuestion ==
    /\ pc = "questions"
    /\ question_i <= Len(discussion_flow[phase_i].questions)
    /\ \E draw \in QuestionDraws(personas, asked < MaxFree),
          replies \in GroupReplies(personas) :
         phase_transcript' =
            phase_transcript
            \o PhaseQuestion(discussion_flow[phase_i].questions[question_i],
                             discussion_flow[phase_i].phase, personas, draw, replies)
    /\ question_i' = question_i + 1
    /\ asked' = asked + 1
    /\ service_called' = (service_called
                          \/ (personas # << >> /\ ActIssuesRequest(enabled)))
    /\ UNCHANGED << config, pc, exc, discussion_flow, full_transcript, loopVars,
                    phase_i, sessionVars, qaVars, summaryVars, coordinator_request >>

\* the phase returns: its transcript and the transition are appended
EndPhase ==
    /\ pc = "questions"
    /\ question_i > Len(discussion_flow[phase_i].questions)
    /\ full_transcript' =
         full_transcript \o phase_transcript
         \o _create_phase_transition(discussion_flow[phase_i].phase)
    /\ phase_transcript' = << >>
    /\ phase_i' = phase_i + 1
    /\ pc' = IF phase_i' > Len(discussion_flow) THEN "post" ELSE "phases"
    /\ UNCHANGED << config, exc, discussion_flow, loopVars, question_i, asked,
                    sessionVars, qaVars, summaryVars, traceVars >>

\* the post-discussion wrap-up, the return, and the finally clause
PostDiscussion ==
    /\ pc = "post"
    /\ full_transcript' = full_transcript \o _create_post_discussion_moments(personas)
    /\ pc' = "returned"
    /\ EndSession
    /\ UNCHANGED << config, exc, discussion_flow, loopVars, phaseVars, qaVars, summaryVars, traceVars >>

\* the organizer applied to the transcript conduct_discussion returned
OrganizeDiscussion ==
    /\ pc = "returned"
    /\ organized_data = NoOrganized
    /\ discussion_transcript' = full_transcript
    /\ organized_data' = _organize_transcript_data(full_transcript)
    /\ UNCHANGED << quote, storeVars, traceVars, impact, max_retries, request, summary, schema, custom_summary, config, discussionVars, qaVars >>

Next ==
    \/ StartDiscussion
    \/ Opening
    \/ AgenticTurn
    \/ BeginPhase
    \/ AskPhaseQuestion
    \/ EndPhase
    \/ PostDiscussion
    \/ OrganizeDiscussion

Spec == Init /\ [][Next]_vars

(***************************************************************************)
(* QAAssistantAgent: the answer builders.                                  *)
(***************************************************************************)
\* One piece of an answer text: a wording of the builder, named by its
\* opening words, with the name, the text and the number it interpolates
Part(wording, who, data, n) == [wording |-> wording, who |-> who, data |-> data, n |-> n]
Wording(w) == Part(w, "", << >>, 0)

\* a section of the summary dict: its name, its value, and whether the
\* value is a dict.  A dict section carries its json.dumps text.
SummaryItem(k, is_dict, v) == [k |-> k, is_dict |-> is_dict, v |-> v]

\* summary.get(key, default)
GetOr(d, key, default) ==
    IF \E i \in DOMAIN d : d[i].k = key
    THEN d[CHOOSE i \in DOMAIN d : d[i].k = key].v
    ELSE default

\* str.split(): the words between runs of whitespace
RECURSIVE Words(_)
Words(s) ==
    LET t == lstrip(s)
    IN IF t = << >> THEN << >>
       ELSE LET ends == { i \in DOMAIN t : t[i] \in Whitespace }
                stop == IF ends = {} THEN Len(t) + 1
                        ELSE CHOOSE i \in ends : \A j \in ends : i <= j
            IN << SubSeq(t, 1, stop - 1) >> \o Words(From(t, stop))

\* s.split(sep)
RECURSIVE SplitOn(_, _)
SplitOn(s, sep) ==
    IF Contains(s, sep)
    THEN LET at == CHOOSE i \in 0..(Len(s) - Len(sep)) :
                     /\ SubSeq(s, i + 1, i + Len(sep)) = sep
                     /\ \A j \in 0..(i - 1) : SubSeq(s, j + 1, j + Len(sep)) # sep
         IN << SubSeq(s, 1, at) >> \o SplitOn(From(s, at + Len(sep) + 1), sep)
    ELSE << s >>

\* str.title(): a letter after a non-letter in upper case, the others in
\* lower case
title(s) ==
    LET IsLetter(c) == \E k \in DOMAIN UpperCase : c = UpperCase[k] \/ c = LowerCase[k]
        upper(c) == IF \E k \in DOMAIN LowerCase : LowerCase[k] = c
                    THEN UpperCase[CHOOSE k \in DOMAIN LowerCase : LowerCase[k] = c]
                    ELSE c
    IN [i \in DOMAIN s |->
          IF i = 1 \/ ~IsLetter(s[i - 1]) THEN upper(s[i]) ELSE lower(<< s[i] >>)[1]]

\* s.replace('_', ' ')
Spaced(s) == [i \in DOMAIN s |-> IF s[i] = "_" THEN " " ELSE s[i]]

\* personality_type.replace('_', ' ').title() on the tags of the model
TypeTitle(personality_type) ==
    CASE personality_type = "budget_conscious" -> "Budget Conscious"
      [] personality_type = "enthusiast"       -> "Enthusiast"
      [] personality_type = "skeptic"          -> "Skeptic"
      [] personality_type = "pragmatist"       -> "Pragmatist"
      [] personality_type = "trendsetter"      -> "Trendsetter"
      [] personality_type = "balanced"         -> "Balanced"
      [] OTHER                                 -> personality_type

stop_words ==
    {<<"w", "h", "a", "t">>, <<"h", "o", "w">>, <<"w", "h", "o">>, <<"w", "h", "e", "n">>, <<"w", "h", "e", "r", "e">>, <<"w", "h", "y">>, <<"i", "s">>, <<"a", "r", "e">>, <<"w", "a", "s">>, <<"w", "e", "r", "e">>, <<"t", "h", "e">>, <<"a">>, <<"a", "n">>}

\* any(keyword in text for keyword in keywords)
AnyKeyword(text, keywords) ==
    \E i \in DOMAIN keywords : Contains(text, keywords[i])

\* entries of one type whose content holds a keyword
RelevantEntries(transcript_, type, keywords) ==
    SelectSeq(transcript_,
              LAMBDA entry : /\ Field(entry, "type", "") = type
                             /\ AnyKeyword(lower(Field(entry, "content", << >>)), keywords))

\* _extract_relevant_context; relevant_participants, which no builder
\* reads, is left out
_extract_relevant_context(q, transcript_, summary_) ==
    LET keywords == SelectSeq(Words(lower(q.chars)),
                              LAMBDA word : word \notin stop_words /\ Len(word) > 2)
    IN [keywords |-> keywords,
        relevant_responses |-> RelevantEntries(transcript_, "response", keywords),
        relevant_interactions |-> RelevantEntries(transcript_, "interaction", keywords),
        relevant_summary_sections |->
            SelectSeq(summary_,
                      LAMBDA section : /\ section.is_dict
                                       /\ AnyKeyword(lower(section.v.json), keywords))]

\* the responses of one speaker
ResponsesOf(transcript_, name) ==
    SelectSeq(transcript_,
              LAMBDA entry : /\ Field(entry, "speaker", "") = name
                             /\ Field(entry, "type", "") = "response")

\* the profile lines of _answer_participant_specific; the background line
\* is written for a persona with a background
Profile(info) ==
    << Wording("**Participant Profile:**"),
       Part("Age", Field(info, "age", "N/A"), << >>, 0),
       Part("Occupation", Field(info, "occupation", "Professional"), << >>, 0),
       Part("Location", Field(info, "location", "Not specified"), << >>, 0),
       Part("Personality Type", TypeTitle(Field(info, "personality_type", "balanced")), << >>, 0),
       Part("Monthly Budget", Field(info, "monthly_budget", "Not specified"), << >>, 0) >>
    \o (IF Field(info, "background", << >>) # << >>
        THEN << Part("Background", "", Truncate(info.background, 200), 0) >>
        ELSE << >>)

_answer_participant_specific(q, context, transcript_, ps) ==
    LET named == { i \in DOMAIN ps : ps[i].name \in q.names }
    IN IF named # {}
       THEN LET participant_info == ps[CHOOSE i \in named : \A j \in named : i <= j]
                participant_name == participant_info.name
                participant_responses == ResponsesOf(transcript_, participant_name)
                shown == FirstN(participant_responses, 4)
            IN [answer |->
                   << Part("shared several important perspectives", participant_name, << >>, 0) >>
                   \o (IF participant_responses # << >>
                       THEN [i \in DOMAIN shown |->
                               Part("Response", "", Truncate(shown[i].content, 300), i)]
                            \o (IF Len(participant_responses) > 4
                                THEN << Part("total contributions", participant_name, << >>,
                                             Len(participant_responses)) >>
                                ELSE << >>)
                       ELSE << Part("did not provide specific responses", participant_name,
                                    << >>, 0) >>)
                   \o Profile(participant_info),
                participant |-> participant_name,
                response_count |-> Len(participant_responses),
                confidence |-> IF participant_responses # << >> THEN "high" ELSE "medium",
                source_type |-> "participant_specific", built |-> TRUE]
       ELSE LET relevant_responses == FirstN(context.relevant_responses, 6)
                shown == FirstN(ps, 5)
            IN [answer |->
                   IF relevant_responses # << >>
                   THEN << Wording("Based on participant responses related to your question") >>
                        \o [i \in DOMAIN relevant_responses |->
                              Part("said", relevant_responses[i].speaker,
                                   Truncate(relevant_responses[i].content, 250), 0)]
                   ELSE << Wording("Here's an overview of the participants") >>
                        \o [i \in DOMAIN shown |->
                              Part(TypeTitle(Field(shown[i], "personality_type", "balanced")),
                                   shown[i].name, << >>,
                                   Len(ResponsesOf(transcript_, shown[i].name)))],
                response_count |-> Len(relevant_responses),
                confidence |-> IF relevant_responses # << >> THEN "medium" ELSE "low",
                source_type |-> "multiple_participants", built |-> TRUE]

\* the numbered list of a builder: "1. item"
Numbered(items) == [i \in DOMAIN items |-> Part("numbered", "", items[i], i)]

\* the bulleted list of a builder
Bulleted(items) == [i \in DOMAIN items |-> Part(Bullet, "", items[i], 0)]

\* the quotes a builder shows
QuoteLines(quotes) ==
    [i \in DOMAIN quotes |->
        Part("quote", Field(quotes[i], "speaker", "Participant"),
             Field(quotes[i], "quote", << >>), 0)]

\* [insight for insight in key_insights if any(word in insight.lower() ...)]
InsightsWith(key_insights, words) ==
    SelectSeq(key_insights, LAMBDA insight : ContainsAny(lower(insight), words))

_answer_theme_analysis(q, summary_) ==
    LET key_insights == GetOr(summary_, "key_insights", << >>)
        supporting_quotes == GetOr(summary_, "supporting_quotes", << >>)
        question_lower == lower(q.chars)
    IN [answer |->
           << Wording("Based on the thematic analysis of the discussion") >>
           \o (IF key_insights # << >>
               THEN << Wording("**Main Themes Identified:**") >> \o Numbered(key_insights)
               ELSE << >>)
           \o (IF supporting_quotes # << >>
               THEN << Wording("**Supporting Evidence:**") >>
                    \o QuoteLines(FirstN(supporting_quotes, 2))
               ELSE << >>)
           \o (IF ContainsAny(question_lower, {<<"m", "o", "s", "t", " ", "d", "i", "s", "c", "u", "s", "s", "e", "d">>, <<"p", "o", "p", "u", "l", "a", "r">>})
               THEN << Wording("**Most Discussed Topics:**") >> ELSE << >>)
           \o (IF ContainsAny(question_lower, {<<"c", "o", "n", "s", "e", "n", "s", "u", "s">>, <<"a", "g", "r", "e", "e", "m", "e", "n", "t">>})
               THEN << Wording("**Areas of Consensus:**") >> ELSE << >>)
           \o (IF ContainsAny(question_lower, {<<"d", "i", "f", "f", "e", "r", "e", "n", "t">>, <<"d", "i", "s", "a", "g", "r", "e", "e">>})
               THEN << Wording("**Divergent Viewpoints:**") >> ELSE << >>),
        themes_identified |-> Len(key_insights),
        confidence |-> IF key_insights # << >> THEN "high" ELSE "medium",
        source_type |-> "thematic_analysis", built |-> TRUE]

\* a section of _answer_behavioral_insights: the insights that hold one of
\* the words (the first `most` of them; 0 for all), or the stock lines
InsightSection(heading, key_insights, words, most) ==
    LET found == InsightsWith(key_insights, words)
    IN << Wording(heading) >>
       \o (IF found # << >>
           THEN Bulleted(IF most = 0 THEN found ELSE FirstN(found, most))
           ELSE << Wording("stock lines") >>)

\* quote.get('quote', '').replace('"', '')
Unquoted(text) == SelectSeq(text, LAMBDA c : c # "\"")

_answer_behavioral_insights(q, summary_) ==
    LET key_insights == GetOr(summary_, "key_insights", << >>)
        supporting_quotes == GetOr(summary_, "supporting_quotes", << >>)
        question_lower == lower(q.chars)
        shown == FirstN(supporting_quotes, 2)
    IN [answer |->
           << Wording("Based on the behavioral analysis from the discussion") >>
           \o (IF ContainsAny(question_lower, {<<"d", "e", "c", "i", "s", "i", "o", "n">>, <<"c", "h", "o", "o", "s", "e">>, <<"b", "u", "y">>, <<"p", "u", "r", "c", "h", "a", "s", "e">>})
               THEN InsightSection("**Decision-Making Behavior:**", key_insights,
                                   {<<"d", "e", "c", "i", "s", "i", "o", "n">>, <<"c", "h", "o", "i", "c", "e">>, <<"p", "r", "e", "f", "e", "r">>, <<"s", "e", "l", "e", "c", "t">>}, 3)
               ELSE << >>)
           \o (IF ContainsAny(question_lower, {<<"d", "r", "i", "v", "e">>, <<"m", "o", "t", "i", "v", "a", "t", "e">>, <<"i", "n", "f", "l", "u", "e", "n", "c", "e">>, <<"f", "a", "c", "t", "o", "r">>})
               THEN InsightSection("**Key Purchase Drivers:**", key_insights,
                                   {<<"d", "r", "i", "v", "e">>, <<"f", "a", "c", "t", "o", "r">>, <<"i", "m", "p", "o", "r", "t", "a", "n", "t">>, <<"k", "e", "y">>}, 0)
               ELSE << >>)
           \o (IF ContainsAny(question_lower,
                              {<<"b", "a", "r", "r", "i", "e", "r">>, <<"c", "o", "n", "c", "e", "r", "n">>, <<"p", "r", "o", "b", "l", "e", "m">>, <<"i", "s", "s", "u", "e">>, <<"p", "r", "e", "v", "e", "n", "t">>})
               THEN InsightSection("**Main Barriers & Concerns:**", key_insights,
                                   {<<"b", "a", "r", "r", "i", "e", "r">>, <<"c", "o", "n", "c", "e", "r", "n">>, <<"p", "r", "o", "b", "l", "e", "m">>, <<"d", "i", "f", "f", "i", "c", "u", "l", "t">>}, 0)
               ELSE << >>)
           \o (IF supporting_quotes # << >>
               THEN << Wording("**Participant Perspectives:**") >>
                    \o [i \in DOMAIN shown |->
                          Part("quote", Field(shown[i], "speaker", "Participant"),
                               Unquoted(Field(shown[i], "quote", << >>)), 0)]
               ELSE << >>)
           \o (IF ContainsAny(question_lower,
                              {<<"r", "e", "s", "e", "a", "r", "c", "h">>, <<"i", "n", "f", "o", "r", "m", "a", "t", "i", "o", "n">>, <<"l", "e", "a", "r", "n">>, <<"f", "i", "n", "d", " ", "o", "u", "t">>})
               THEN << Wording("**Research Behavior:**") >> ELSE << >>),
        insights_count |-> Len(key_insights),
        confidence |-> IF key_insights # << >> THEN "high" ELSE "medium",
        source_type |-> "behavioral_analysis", built |-> TRUE]

\* a dict section of the summary, {} when it is absent: its fields
DictSection(summary_, key) ==
    LET section == GetOr(summary_, key, [fields |-> << >>])
    IN section.fields

\* d.items() of a dict of texts, as lines "key: value"; the key spaced and
\* in title case
ItemLines(pairs) ==
    [i \in DOMAIN pairs |-> Part("item", "", title(Spaced(pairs[i].k)), pairs[i].v)]

\* the averages are in tenths: {:.1f}
_answer_demographic_analysis(q, summary_, ps) ==
    LET participant_analysis == DictSection(summary_, "participant_analysis")
        shown == FirstN(ps, 3)
    IN [answer |->
           << Wording("Based on the demographic analysis") >>
           \o (IF \E i \in DOMAIN participant_analysis :
                     participant_analysis[i].k = "demographic_breakdown"
               THEN LET breakdown == GetOr(participant_analysis, "demographic_breakdown", << >>)
                    IN << Wording("**Participant Overview:**"),
                          Part("Total participants", "", << >>,
                               GetOr(breakdown, "total_participants", 0)) >>
                       \o (IF \E i \in DOMAIN breakdown :
                                 breakdown[i].k = "personality_distribution"
                           THEN << Wording("Personality distribution") >>
                                \o ItemLines(GetOr(breakdown, "personality_distribution", << >>))
                           ELSE << >>)
               ELSE << >>)
           \o (IF \E i \in DOMAIN participant_analysis :
                     participant_analysis[i].k = "engagement_levels"
               THEN LET engagement == GetOr(participant_analysis, "engagement_levels", << >>)
                    IN << Wording("**Engagement Patterns:**"),
                          Part("Most active", GetOr(engagement, "most_active_participant", "N/A"),
                               << >>, 0),
                          Part("Average responses per participant", "", << >>,
                               GetOr(engagement, "average_responses_per_participant", 0)) >>
               ELSE << >>)
           \o << Wording("**Participant Profiles:**") >>
           \o [i \in DOMAIN shown |->
                 Part(Field(shown[i], "personality_type", "balanced"), shown[i].name,
                      << >>, 0)],
        participant_count |-> Len(ps),
        confidence |-> "high",
        source_type |-> "demographic_analysis", built |-> TRUE]

_answer_sentiment_analysis(q, summary_) ==
    LET sentiment_analysis == DictSection(summary_, "sentiment_analysis")
        Has(key) == \E i \in DOMAIN sentiment_analysis : sentiment_analysis[i].k = key
        overall == GetOr(sentiment_analysis, "overall_sentiment", << >>)
    IN [answer |->
           << Wording("Based on the sentiment analysis") >>
           \o (IF Has("overall_sentiment")
               THEN << Wording("**Overall Sentiment Distribution:**"),
                       Part("Positive responses", "", << >>, GetOr(overall, "positive", 0)),
                       Part("Negative responses", "", << >>, GetOr(overall, "negative", 0)),
                       Part("Neutral responses", "", << >>, GetOr(overall, "neutral", 0)),
                       Part("Dominant sentiment", "",
                            title(GetOr(overall, "dominant_sentiment", <<"n", "e", "u", "t", "r", "a", "l">>)), 0) >>
               ELSE << >>)
           \o (IF Has("emotional_triggers")
               THEN << Wording("**Key Emotional Triggers:**") >>
                    \o Bulleted(FirstN(GetOr(sentiment_analysis, "emotional_triggers", << >>), 4))
               ELSE << >>)
           \o (IF Has("participant_sentiment")
               THEN LET shown == FirstN(GetOr(sentiment_analysis, "participant_sentiment",
                                              << >>), 4)
                    IN << Wording("**Participant Sentiment:**") >>
                       \o [i \in DOMAIN shown |->
                             Part("sentiment", shown[i].k, title(shown[i].v), 0)]
               ELSE << >>),
        dominant_sentiment |-> GetOr(overall, "dominant_sentiment", <<"n", "e", "u", "t", "r", "a", "l">>),
        confidence |-> IF sentiment_analysis # << >> THEN "high" ELSE "medium",
        source_type |-> "sentiment_analysis", built |-> TRUE]

comparison_indicators ==
    <<<<"v", "s">>, <<"v", "e", "r", "s", "u", "s">>, <<"c", "o", "m", "p", "a", "r", "e", "d", " ", "t", "o">>, <<"d", "i", "f", "f", "e", "r", "e", "n", "c", "e", " ", "b", "e", "t", "w", "e", "e", "n">>, <<"c", "o", "n", "t", "r", "a", "s", "t">>>>

common_comparisons ==
    << <<<<"o", "n", "l", "i", "n", "e">>, <<"o", "f", "f", "l", "i", "n", "e">>>>, <<<<"d", "i", "g", "i", "t", "a", "l">>, <<"p", "h", "y", "s", "i", "c", "a", "l">>>>,
       <<<<"p", "r", "e", "m", "i", "u", "m">>, <<"b", "u", "d", "g", "e", "t">>>>, <<<<"y", "o", "u", "n", "g">>, <<"o", "l", "d">>>>,
       <<<<"m", "a", "l", "e">>, <<"f", "e", "m", "a", "l", "e">>>>, <<<<"u", "r", "b", "a", "n">>, <<"r", "u", "r", "a", "l">>>> >>

\* _extract_comparison_terms: the two words on either side of the first
\* indicator that splits the question in two, else the first common pair
\* the question names, else nothing
_extract_comparison_terms(q) ==
    LET question_lower == lower(q.chars)
        splitting == { i \in DOMAIN comparison_indicators :
                         Len(SplitOn(question_lower, comparison_indicators[i])) = 2 }
        named == { i \in DOMAIN common_comparisons :
                     \A j \in 1..2 : Contains(question_lower, common_comparisons[i][j]) }
    IN IF splitting # {}
       THEN LET parts == SplitOn(question_lower,
                                 comparison_indicators[CHOOSE i \in splitting :
                                                         \A j \in splitting : i <= j])
            IN << Join(LastN(Words(parts[1]), 2)), Join(FirstN(Words(parts[2]), 2)) >>
       ELSE IF named # {}
       THEN common_comparisons[CHOOSE i \in named : \A j \in named : i <= j]
       ELSE << >>

\* ' vs '.join(terms)
JoinVs(terms) ==
    IF Len(terms) = 2 THEN terms[1] \o <<" ", "v", "s", " ">> \o terms[2] ELSE << >>

\* the lines of one comparison term: up to two responses that mention it,
\* cut at 150 characters and followed by an ellipsis
TermLines(term, relevant_responses) ==
    LET term_responses == SelectSeq(relevant_responses,
                                    LAMBDA r : Contains(lower(r.content), lower(term)))
        shown == FirstN(term_responses, 2)
    IN IF term_responses # << >>
       THEN << Part("perspective", "", title(term), 0) >>
            \o [i \in DOMAIN shown |->
                  Part("said", shown[i].speaker,
                       FirstN(shown[i].content, 150) \o <<".", ".", ".">>, 0)]
       ELSE << >>

_answer_comparative_analysis(q, transcript_, summary_) ==
    LET comparison_terms == _extract_comparison_terms(q)
        relevant_responses ==
            SelectSeq(transcript_,
                      LAMBDA entry :
                          /\ Field(entry, "type", "") = "response"
                          /\ \E i \in DOMAIN comparison_terms :
                                Contains(lower(Field(entry, "content", << >>)),
                                         lower(comparison_terms[i])))
        behavioral_insights == DictSection(summary_, "behavioral_insights")
    IN [answer |->
           << Wording("Based on the comparative analysis") >>
           \o (IF comparison_terms # << >>
               THEN << Part("Comparing", "", JoinVs(comparison_terms), 0) >>
                    \o TermLines(comparison_terms[1], relevant_responses)
                    \o TermLines(comparison_terms[2], relevant_responses)
               ELSE << >>)
           \o (IF \E i \in DOMAIN behavioral_insights :
                     behavioral_insights[i].k = "behavioral_patterns"
               THEN << Wording("**Key Behavioral Patterns:**") >>
                    \o [i \in DOMAIN GetOr(behavioral_insights, "behavioral_patterns", << >>) |->
                          LET pattern == GetOr(behavioral_insights, "behavioral_patterns",
                                               << >>)[i]
                          IN Part("pattern", "", title(Spaced(pattern.k)) \o <<":", " ">>
                                                 \o pattern.v, 0)]
               ELSE << >>),
        comparison_terms |-> comparison_terms,
        confidence |-> IF comparison_terms # << >> THEN "medium" ELSE "low",
        source_type |-> "comparative_analysis", built |-> TRUE]

_answer_actionable_insights(q, summary_) ==
    LET opportunities_recommendations ==
            GetOr(summary_, "opportunities_recommendations", << >>)
        next_steps == GetOr(summary_, "next_steps", << >>)
        key_insights == GetOr(summary_, "key_insights", << >>)
        question_lower == lower(q.chars)
        opportunity_insights ==
            InsightsWith(key_insights, {<<"o", "p", "p", "o", "r", "t", "u", "n", "i", "t", "y">>, <<"p", "o", "t", "e", "n", "t", "i", "a", "l">>, <<"c", "o", "u", "l", "d">>, <<"s", "h", "o", "u", "l", "d">>})
    IN [answer |->
           << Wording("Based on the discussion, here are the key actionable insights") >>
           \o (IF /\ opportunities_recommendations # << >>
                  /\ ContainsAny(question_lower,
                                 {<<"r", "e", "c", "o", "m", "m", "e", "n", "d">>, <<"s", "u", "g", "g", "e", "s", "t">>, <<"s", "h", "o", "u", "l", "d">>, <<"a", "c", "t", "i", "o", "n">>})
               THEN << Wording("**Strategic Recommendations:**") >>
                    \o Numbered(opportunities_recommendations)
               ELSE << >>)
           \o (IF /\ next_steps # << >>
                  /\ ContainsAny(question_lower,
                                 {<<"n", "e", "x", "t">>, <<"f", "o", "l", "l", "o", "w">>, <<"s", "t", "e", "p">>, <<"f", "u", "t", "u", "r", "e">>, <<"p", "l", "a", "n">>})
               THEN << Wording("**Immediate Next Steps:**") >> \o Numbered(next_steps)
               ELSE << >>)
           \o (IF ContainsAny(question_lower,
                              {<<"o", "p", "p", "o", "r", "t", "u", "n", "i", "t", "y">>, <<"p", "o", "t", "e", "n", "t", "i", "a", "l">>, <<"c", "h", "a", "n", "c", "e">>, <<"p", "o", "s", "s", "i", "b", "i", "l", "i", "t", "y">>})
               THEN << Wording("**Key Opportunities Identified:**") >>
                    \o Bulleted(IF opportunity_insights # << >> THEN opportunity_insights
                                ELSE FirstN(opportunities_recommendations, 3))
               ELSE << >>)
           \o (IF ContainsAny(question_lower,
                              {<<"p", "r", "i", "o", "r", "i", "t", "y">>, <<"i", "m", "p", "o", "r", "t", "a", "n", "t">>, <<"f", "i", "r", "s", "t">>, <<"u", "r", "g", "e", "n", "t">>})
               THEN << Wording("**Implementation Priorities:**") >>
                    \o (IF opportunities_recommendations # << >>
                        THEN << Part("High Priority", "", opportunities_recommendations[1], 0) >>
                             \o (IF Len(opportunities_recommendations) > 1
                                 THEN << Part("Medium Priority", "",
                                              opportunities_recommendations[2], 0) >>
                                 ELSE << >>)
                             \o (IF Len(opportunities_recommendations) > 2
                                 THEN << Wording("**Additional Considerations:**") >>
                                      \o Bulleted(SubSeq(opportunities_recommendations, 3,
                                                         IF Len(opportunities_recommendations) < 4
                                                         THEN Len(opportunities_recommendations)
                                                         ELSE 4))
                                 ELSE << >>)
                        ELSE << >>)
               ELSE << >>)
           \o (IF ContainsAny(question_lower, {<<"r", "i", "s", "k">>, <<"c", "o", "n", "c", "e", "r", "n">>, <<"a", "v", "o", "i", "d">>, <<"p", "r", "e", "v", "e", "n", "t">>})
               THEN << Wording("**Risk Mitigation Strategies:**") >> ELSE << >>)
           \o (IF ~ContainsAny(question_lower,
                               {<<"r", "e", "c", "o", "m", "m", "e", "n", "d">>, <<"n", "e", "x", "t">>, <<"o", "p", "p", "o", "r", "t", "u", "n", "i", "t", "y">>, <<"p", "r", "i", "o", "r", "i", "t", "y">>, <<"r", "i", "s", "k">>})
               THEN (IF opportunities_recommendations # << >>
                     THEN << Wording("**Key Recommendations:**") >>
                          \o Bulleted(FirstN(opportunities_recommendations, 4))
                     ELSE << >>)
                    \o (IF next_steps # << >>
                        THEN << Wording("**Next Steps:**") >> \o Bulleted(FirstN(next_steps, 3))
                        ELSE << >>)
               ELSE << >>),
        recommendations_count |-> Len(opportunities_recommendations),
        next_steps_count |-> Len(next_steps),
        confidence |-> IF opportunities_recommendations # << >> \/ next_steps # << >>
                       THEN "high" ELSE "medium",
        source_type |-> "actionable_insights", built |-> TRUE]

_answer_general(q, context, transcript_, summary_, ps) ==
    LET relevant_responses == FirstN(context.relevant_responses, 3)
        relevant_summary == context.relevant_summary_sections
    IN [answer |->
           << Wording("Based on the discussion data") >>
           \o (IF relevant_responses # << >>
               THEN << Wording("**Relevant Participant Responses:**") >>
                    \o [i \in DOMAIN relevant_responses |->
                          Part("said", relevant_responses[i].speaker,
                               FirstN(relevant_responses[i].content, 200)
                               \o <<".", ".", ".">>, 0)]
               ELSE << >>)
           \o (IF relevant_summary # << >>
               THEN << Wording("**Summary Insights:**") >>
                    \o [i \in DOMAIN relevant_summary |->
                          Part("Key findings available", relevant_summary[i].k, << >>, 0)]
               ELSE << >>)
           \o << Wording("**Discussion Overview:**"),
                 Part("Total participants", "", << >>, Len(ps)),
                 Part("Total responses analyzed", "", << >>,
                      Len(SelectSeq(transcript_,
                                    LAMBDA e : Field(e, "type", "") = "response"))),
                 Part("Discussion phases covered", "", << >>,
                      Cardinality({ Field(transcript_[i], "phase", "") :
                                      i \in { j \in DOMAIN transcript_ :
                                                Field(transcript_[j], "phase", "") # "" } })) >>,
        confidence |-> IF relevant_responses # << >> \/ relevant_summary # << >>
                       THEN "medium" ELSE "low",
        source_type |-> "general_analysis", built |-> TRUE]

\* the builder of each category
CategoryBuilder(q, category, context, transcript_, summary_, ps) ==
    CASE category = "participant_specific" ->
             _answer_participant_specific(q, context, transcript_, ps)
      [] category = "theme_analysis"       -> _answer_theme_analysis(q, summary_)
      [] category = "behavioral_insights"  -> _answer_behavioral_insights(q, summary_)
      [] category = "demographic_analysis" -> _answer_demographic_analysis(q, summary_, ps)
      [] category = "sentiment_analysis"   -> _answer_sentiment_analysis(q, summary_)
      [] category = "comparative_analysis" ->
             _answer_comparative_analysis(q, transcript_, summary_)
      [] category = "actionable_insights"  -> _answer_actionable_insights(q, summary_)
      [] OTHER -> _answer_general(q, context, transcript_, summary_, ps)

\* as _generate_answer, except that a question the assistant remembers is
\* answered with a reference to the earlier answer
AnswerRecallingHistory(self_, q, category, context, transcript_, summary_, ps) ==
    LET fresh == CategoryBuilder(q, category, context, transcript_, summary_, ps)
    IN IF q.text \in DOMAIN self_.context_memory
       THEN [fresh EXCEPT !.answer = << Wording("As I said before") >> \o @]
       ELSE fresh

\* _generate_answer: the builder of the category.  self_ is the assistant,
\* whose memory no builder reads.
_generate_answer(self_, q, category, context, transcript_, summary_, ps) ==
    CategoryBuilder(q, category, context, transcript_, summary_, ps)

\* outcomes of generate_text_sync for a Q&A request: the call raises, or
\* returns a text (empty or not)
TextOutcomes ==
    { ServiceRaises, Reply("text", JText(<< >>)), Reply("text", JText(<<"answer">>)) }

\* context_memory[question] = ...: a dict keyed by the question
Remember(memory, key, value) ==
    [k \in DOMAIN memory \cup {key} |-> IF k = key THEN value ELSE memory[k]]

\* answer_question: the service's text when the service is enabled, the
\* call does not raise and the text is not empty; else the builder's answer.
\* LLM-only mode is not consulted.  Returns the result and the assistant's
\* memory after the call; now is the clock.
answer_question(self_, q, transcript_, summary_, ps, out, now) ==
    LET question_category == _categorize_question(q)
        context == _extract_relevant_context(q, transcript_, summary_)
        result ==
            IF self_.enabled /\ ~out.raise /\ Truthy(out.val)
            THEN [answer |-> << Part("service text", "", out.val.s, 0) >>,
                  category |-> question_category,
                  confidence |-> "high", source_type |-> "llm", built |-> FALSE]
            ELSE _generate_answer(self_, q, question_category, context,
                                  transcript_, summary_, ps)
    IN [result |-> result,
        context_memory |->
            Remember(self_.context_memory, q.text,
                     [answer |-> result, category |-> question_category,
                      context |-> context, timestamp |-> now])]

\* the transcript of a finished session
QATranscript ==
    << [type |-> "question", speaker |-> "Moderator",
         content |-> <<"W", "h", "a", "t", " ", "m", "a", "t", "t", "e", "r", "s", " ", "w", "h", "e", "n", " ", "y", "o", "u", " ", "s", "h", "o", "p", "?">>,
         phase |-> "core"],
       [type |-> "response", speaker |-> "Rahul",
         content |-> <<"T", "h", "e", " ", "p", "r", "i", "c", "e", " ", "i", "s", " ", "t", "o", "o", " ", "h", "i", "g", "h", " ", "f", "o", "r", " ", "m", "e">>,
         phase |-> "core"],
       [type |-> "response", speaker |-> "Aditi",
         content |-> <<"I", " ", "l", "o", "v", "e", " ", "s", "h", "o", "p", "p", "i", "n", "g", " ", "o", "n", "l", "i", "n", "e">>,
         phase |-> "core"],
       [type |-> "interaction", speaker |-> "Priya",
         content |-> <<"I", " ", "a", "g", "r", "e", "e", " ", "a", "b", "o", "u", "t", " ", "t", "h", "e", " ", "p", "r", "i", "c", "e">>],
       [type |-> "response", speaker |-> "Rahul",
         content |-> <<"O", "f", "f", "l", "i", "n", "e", " ", "s", "t", "o", "r", "e", "s", " ", "l", "e", "t", " ", "m", "e", " ", "t", "r", "y", " ", "t", "h", "i", "n", "g", "s">>,
         phase |-> "closing"] >>

\* summaries a session may hold: none ({}), one of the sections that
\* generate_summary writes, one of analysis sections
QASummaries ==
    { << >>,
      << SummaryItem("metadata", TRUE,
                     [json |-> <<"{", "\"", "t", "o", "t", "a", "l", "_", "p", "a", "r", "t", "i", "c", "i", "p", "a", "n", "t", "s", "\"", ":", " ", "3", ",", " ", "\"", "s", "u", "m", "m", "a", "r", "y", "_", "s", "c", "h", "e", "m", "a", "_", "v", "e", "r", "s", "i", "o", "n", "\"", ":", " ", "\"", "2", ".", "0", "\"", ",", " ", "\"", "t", "o", "p", "i", "c", "\"", ":", " ", "\"", "p", "r", "i", "c", "e", " ", "a", "n", "d", " ", "v", "a", "l", "u", "e", "\"", "}">>,
                      fields |-> << >>]),
         SummaryItem("key_insights", FALSE,
                     <<<<"P", "r", "i", "c", "e", " ", "i", "s", " ", "a", " ", "k", "e", "y", " ", "f", "a", "c", "t", "o", "r", " ", "i", "n", " ", "e", "v", "e", "r", "y", " ", "d", "e", "c", "i", "s", "i", "o", "n">>, <<"P", "a", "r", "t", "i", "c", "i", "p", "a", "n", "t", "s", " ", "p", "r", "e", "f", "e", "r", " ", "o", "n", "l", "i", "n", "e", " ", "r", "e", "v", "i", "e", "w", "s">>>>),
         SummaryItem("supporting_quotes", FALSE,
                     << [quote |-> <<"\"", "T", "h", "e", " ", "p", "r", "i", "c", "e", " ", "i", "s", " ", "t", "o", "o", " ", "h", "i", "g", "h", " ", "f", "o", "r", " ", "m", "e", "\"">>,
                         speaker |-> "Rahul"] >>),
         SummaryItem("opportunities_recommendations", FALSE,
                     <<<<"O", "f", "f", "e", "r", " ", "c", "l", "e", "a", "r", " ", "p", "r", "i", "c", "i", "n", "g">>, <<"S", "h", "o", "w", " ", "r", "e", "v", "i", "e", "w", "s", " ", "e", "a", "r", "l", "y">>>>),
         SummaryItem("next_steps", FALSE, <<<<"R", "u", "n", " ", "a", " ", "p", "r", "i", "c", "i", "n", "g", " ", "s", "u", "r", "v", "e", "y">>>>) >>,
      << SummaryItem("sentiment_analysis", TRUE,
                     [json |-> <<"{", "\"", "o", "v", "e", "r", "a", "l", "l", "_", "s", "e", "n", "t", "i", "m", "e", "n", "t", "\"", ":", " ", "{", "\"", "p", "o", "s", "i", "t", "i", "v", "e", "\"", ":", " ", "2", ",", " ", "\"", "n", "e", "g", "a", "t", "i", "v", "e", "\"", ":", " ", "1", ",", " ", "\"", "n", "e", "u", "t", "r", "a", "l", "\"", ":", " ", "0", ",", " ", "\"", "d", "o", "m", "i", "n", "a", "n", "t", "_", "s", "e", "n", "t", "i", "m", "e", "n", "t", "\"", ":", " ", "\"", "p", "o", "s", "i", "t", "i", "v", "e", "\"", "}", ",", " ", "\"", "e", "m", "o", "t", "i", "o", "n", "a", "l", "_", "t", "r", "i", "g", "g", "e", "r", "s", "\"", ":", " ", "[", "\"", "p", "r", "i", "c", "e", "\"", "]", ",", " ", "\"", "p", "a", "r", "t", "i", "c", "i", "p", "a", "n", "t", "_", "s", "e", "n", "t", "i", "m", "e", "n", "t", "\"", ":", " ", "{", "\"", "R", "a", "h", "u", "l", "\"", ":", " ", "\"", "n", "e", "g", "a", "t", "i", "v", "e", "\"", "}", "}">>,
                      fields |->
                        << KV("overall_sentiment",
                              << KV("positive", 2), KV("negative", 1), KV("neutral", 0),
                                 KV("dominant_sentiment", <<"p", "o", "s", "i", "t", "i", "v", "e">>) >>),
                           KV("emotional_triggers", <<<<"p", "r", "i", "c", "e">>>>),
                           KV("participant_sentiment",
                              << KV("Rahul", <<"n", "e", "g", "a", "t", "i", "v", "e">>) >>) >>]),
         SummaryItem("participant_analysis", TRUE,
                     [json |-> <<"{", "\"", "d", "e", "m", "o", "g", "r", "a", "p", "h", "i", "c", "_", "b", "r", "e", "a", "k", "d", "o", "w", "n", "\"", ":", " ", "{", "\"", "t", "o", "t", "a", "l", "_", "p", "a", "r", "t", "i", "c", "i", "p", "a", "n", "t", "s", "\"", ":", " ", "3", ",", " ", "\"", "p", "e", "r", "s", "o", "n", "a", "l", "i", "t", "y", "_", "d", "i", "s", "t", "r", "i", "b", "u", "t", "i", "o", "n", "\"", ":", " ", "{", "\"", "s", "k", "e", "p", "t", "i", "c", "\"", ":", " ", "1", ",", " ", "\"", "b", "u", "d", "g", "e", "t", "_", "c", "o", "n", "s", "c", "i", "o", "u", "s", "\"", ":", " ", "1", "}", "}", "}">>,
                      fields |->
                        << KV("demographic_breakdown",
                              << KV("total_participants", 3),
                                 KV("personality_distribution",
                                    << KV(<<"s", "k", "e", "p", "t", "i", "c">>, 1),
                                       KV(<<"b", "u", "d", "g", "e", "t", "_", "c", "o", "n", "s", "c", "i", "o", "u", "s">>, 1) >>) >>) >>]),
         SummaryItem("behavioral_insights", TRUE,
                     [json |-> <<"{", "\"", "b", "e", "h", "a", "v", "i", "o", "r", "a", "l", "_", "p", "a", "t", "t", "e", "r", "n", "s", "\"", ":", " ", "{", "\"", "p", "r", "i", "c", "e", "_", "s", "e", "n", "s", "i", "t", "i", "v", "i", "t", "y", "\"", ":", " ", "\"", "h", "i", "g", "h", "\"", "}", "}">>,
                      fields |->
                        << KV("behavioral_patterns",
                              << KV(<<"p", "r", "i", "c", "e", "_", "s", "e", "n", "s", "i", "t", "i", "v", "i", "t", "y">>, <<"h", "i", "g", "h">>) >>) >>]) >> }

(***************************************************************************)
(* Questions put to one QAAssistantAgent.                                  *)
(***************************************************************************)
MaxQACalls == 3

\* one answer_question call; it has no path that raises.  The call number
\* stands for the clock; a disabled service is not called.
AnswerQuestion ==
    /\ qa_calls < MaxQACalls
    /\ \E q \in Questions, out \in (IF enabled THEN TextOutcomes ELSE {NoResponse}) :
         LET call == answer_question([enabled |-> enabled,
                                      context_memory |-> context_memory],
                                     q, discussion_transcript, summary, personas,
                                     out, qa_calls + 1)
         IN /\ qa_question' = q.text
            /\ qa_response' = IF enabled THEN out ELSE NoResponse
            /\ qa_result' = call.result
            /\ context_memory' = call.context_memory
    /\ qa_calls' = qa_calls + 1
    /\ service_called' = (service_called \/ QAIssuesRequest(enabled))
    /\ UNCHANGED << qa_exc, config, discussionVars, summaryVars, coordinator_request >>

\* the assistant idle on a session that holds a transcript and a summary
QAInputs(transcripts, summaries) ==
    /\ plan_text = ""
    /\ personas = << Aditi, Rahul, Priya >>
    /\ DiscussionIdle
    /\ QAIdle
    /\ discussion_transcript \in transcripts
    /\ summary \in summaries
    /\ organized_data = NoOrganized
    /\ schema = << >>
    /\ custom_summary = NoCustomSummary
    /\ quote = << >>
    /\ impact = NoImpact
    /\ max_retries = DefaultMaxRetries
    /\ request = NoRequest
    /\ NoSession

InitQA ==
    /\ enabled \in BOOLEAN
    /\ llm_only \in BOOLEAN
    /\ QAInputs({ QATranscript }, { << >> })

NextQA == AnswerQuestion

SpecQA == InitQA /\ [][NextQA]_vars

\* the assistant in fallback mode (the service disabled), on any session
InitFallbackQA ==
    /\ enabled = FALSE
    /\ llm_only = FALSE
    /\ QAInputs({ << >>, QATranscript }, QASummaries)

NextFallbackQA == AnswerQuestion

SpecFallbackQA == InitFallbackQA /\ [][NextFallbackQA]_vars

(***************************************************************************)
(* The organizer applied to a transcript.                                  *)
(***************************************************************************)
\* _organize_transcript_data on a transcript of the caller's
OrganizeTranscript ==
    /\ pc = "idle"
    /\ discussion_transcript # NoTranscript
    /\ organized_data = NoOrganized
    /\ organized_data' = _organize_transcript_data(discussion_transcript)
    /\ UNCHANGED << quote, storeVars, traceVars, impact, max_retries, request, discussion_transcript, summary, schema, custom_summary, config,
                    discussionVars, qaVars >>

InitOrganizer ==
    /\ enabled = FALSE
    /\ llm_only = FALSE
    /\ plan_text = ""
    /\ personas = << Aditi, Rahul, Priya >>
    /\ DiscussionIdle
    /\ QAIdle
    /\ discussion_transcript \in Transcripts
    /\ organized_data = NoOrganized
    /\ summary = NoSummary
    /\ schema = << >>
    /\ custom_summary = NoCustomSummary
    /\ quote = << >>
    /\ impact = NoImpact
    /\ max_retries = DefaultMaxRetries
    /\ request = NoRequest
    /\ NoSession

NextOrganizer == OrganizeTranscript

SpecOrganizer == InitOrganizer /\ [][NextOrganizer]_vars

(***************************************************************************)
(* generate_summary applied to a transcript of responses.                  *)
(***************************************************************************)
\* what participants say: no opinion; an opinion with an emotional word;
\* an opinion on price and brand; an opinion on online reviews and trust
Contents ==
    { <<"o", "k">>,
      <<"I", " ", "l", "o", "v", "e", " ", "i", "t">>,
      <<"I", " ", "t", "h", "i", "n", "k", " ", "p", "r", "i", "c", "e", " ", "a", "n", "d", " ", "b", "r", "a", "n", "d", " ", "m", "a", "t", "t", "e", "r">>,
      <<"I", " ", "f", "o", "u", "n", "d", " ", "o", "n", "l", "i", "n", "e", " ", "r", "e", "v", "i", "e", "w", "s", " ", "I", " ", "t", "r", "u", "s", "t">> }

\* speakers with five personality types
Speakers ==
    << Aditi, Rahul, Priya, Persona("Kiran", "pragmatist"), Persona("Meera", "trendsetter") >>

ResponseEntry(p, content, i) ==
    [type |-> "response", speaker |-> p.name, content |-> content,
     personality_type |-> p.personality_type, timestamp |-> i]

\* transcripts of up to MaxResponses responses: by the first n speakers in
\* turn, or by the first two speakers in any order
ResponseTranscripts ==
    UNION { { [i \in 1..n |-> ResponseEntry(Speakers[i], c[i], i)] :
                c \in [1..n -> Contents] }
            \cup { [i \in 1..n |-> ResponseEntry(Speakers[sp[i]], c[i], i)] :
                     c \in [1..n -> Contents], sp \in [1..n -> 1..2] } :
            n \in 0..MaxResponses }

\* a panel of all five speakers, one response each, with or without a
\* word on the price
PanelContents ==
    { <<"o", "k">>,
      <<"T", "h", "e", " ", "P", "r", "i", "c", "e", " ", "i", "s", " ", "h", "i", "g", "h">> }

PanelTranscripts ==
    { [i \in 1..Len(Speakers) |-> ResponseEntry(Speakers[i], c[i], i)] :
        c \in [1..Len(Speakers) -> PanelContents] }

\* generate_summary on a transcript of the caller's
GenerateSummary ==
    /\ pc = "idle"
    /\ discussion_transcript # NoTranscript
    /\ summary = NoSummary
    /\ organized_data' = _organize_transcript_data(discussion_transcript)
    /\ summary' = generate_summary(discussion_transcript)
    /\ UNCHANGED << quote, storeVars, traceVars, impact, max_retries, request, discussion_transcript, schema, custom_summary, config,
                    discussionVars, qaVars >>

InitSummary ==
    /\ enabled = FALSE
    /\ llm_only = FALSE
    /\ plan_text = ""
    /\ personas = << Aditi, Rahul, Priya >>
    /\ DiscussionIdle
    /\ QAIdle
    /\ discussion_transcript \in ResponseTranscripts \cup PanelTranscripts
    /\ organized_data = NoOrganized
    /\ summary = NoSummary
    /\ schema = << >>
    /\ custom_summary = NoCustomSummary
    /\ quote = << >>
    /\ impact = NoImpact
    /\ max_retries = DefaultMaxRetries
    /\ request = NoRequest
    /\ NoSession

NextSummary == GenerateSummary

SpecSummary == InitSummary /\ [][NextSummary]_vars

(***************************************************************************)
(* generate_custom_summary applied to an outline.                          *)
(***************************************************************************)
GenerateCustomSummary ==
    /\ pc = "idle"
    /\ custom_summary = NoCustomSummary
    /\ \E out \in SummaryReplies :
         custom_summary' = generate_custom_summary(enabled, schema, personas, out)
    /\ service_called' = (service_called \/ CustomSummaryIssuesRequest(enabled, schema))
    /\ UNCHANGED << quote, storeVars, coordinator_request, impact, max_retries, request, discussion_transcript, organized_data, summary, schema, config,
                    discussionVars, qaVars >>

InitCustomSummary ==
    /\ enabled \in BOOLEAN
    /\ llm_only = FALSE
    /\ plan_text = ""
    /\ personas = << Aditi, Rahul, Priya >>
    /\ DiscussionIdle
    /\ QAIdle
    /\ discussion_transcript = NoTranscript
    /\ organized_data = NoOrganized
    /\ summary = NoSummary
    /\ schema \in Outlines
    /\ custom_summary = NoCustomSummary
    /\ quote = << >>
    /\ impact = NoImpact
    /\ max_retries = DefaultMaxRetries
    /\ request = NoRequest
    /\ NoSession

NextCustomSummary == GenerateCustomSummary

SpecCustomSummary == InitCustomSummary /\ [][NextCustomSummary]_vars

(***************************************************************************)
(* _calculate_quote_impact applied to a content, to the content with an    *)
(* emotional word appended, and to its first ten characters.               *)
(***************************************************************************)
\* n filler characters
Pad(n) == [i \in 1..n |-> "x"]

\* what a content may hold besides filler
QuoteWords ==
    { << >>, <<"l", "o", "v", "e">>, <<"A", "m", "a", "z", "i", "n", "g">>,
      <<"t", "h", "e", " ", "p", "r", "i", "c", "e">>, <<"I", " ", "f", "o", "u", "n", "d">> }

\* lengths on both sides of the thresholds of the length bonus (50 and 200)
QuoteLengths == {10, 49, 50, 60, 195, 196, 200, 201, 230}

\* contents: filler, one of QuoteWords at one of three places, filler up
\* to one of QuoteLengths
QuoteContents ==
    { Pad(a) \o w \o Pad(n - a - Len(w)) :
        a \in {0, 7, 20}, w \in QuoteWords,
        n \in { m \in QuoteLengths : m >= 20 + 7 } }
    \cup { Pad(a) \o w \o Pad(10 - a - Len(w)) : a \in {0, 3}, w \in QuoteWords }

ScoreQuote ==
    /\ pc = "idle"
    /\ impact = NoImpact
    /\ max_retries = DefaultMaxRetries
    /\ request = NoRequest
    /\ NoSession
    /\ impact' =
         [content |-> _calculate_quote_impact(quote),
          appended |-> [w \in emotional_words |->
                          _calculate_quote_impact(quote \o <<" ">> \o w)],
          prefix |-> _calculate_quote_impact(FirstN(quote, 10))]
    /\ UNCHANGED << quote, storeVars, traceVars, max_retries, request, discussion_transcript, organized_data,
                    summary, schema, custom_summary, config, discussionVars, qaVars >>

InitImpact ==
    /\ enabled = FALSE
    /\ llm_only = FALSE
    /\ plan_text = ""
    /\ personas = << Aditi, Rahul, Priya >>
    /\ DiscussionIdle
    /\ QAIdle
    /\ discussion_transcript = NoTranscript
    /\ organized_data = NoOrganized
    /\ summary = NoSummary
    /\ schema = << >>
    /\ custom_summary = NoCustomSummary
    /\ quote \in QuoteContents
    /\ impact = NoImpact
    /\ max_retries = DefaultMaxRetries
    /\ request = NoRequest
    /\ NoSession

NextImpact == ScoreQuote

SpecImpact == InitImpact /\ [][NextImpact]_vars

(***************************************************************************)
(* LLMClient._chat_completion: one request to the generation service.      *)
(***************************************************************************)
\* LLM_MAX_RETRIES as the environment may set it
MaxRetries == 3

\* what an attempt may raise
ServiceErrors == { "timeout", "rate_limit", "connection" }

\* resp.choices[0].message.content or ""
Completions == { "", "text" }

Min(a, b) == IF a <= b THEN a ELSE b

\* the call is entered: attempt = 0, last_err = None
StartCompletion ==
    /\ pc = "idle"
    /\ request.pc = "idle"
    /\ request' = [request EXCEPT !.pc = "loop"]
    /\ UNCHANGED << max_retries, quote, storeVars, traceVars, impact, discussion_transcript, organized_data,
                    summary, schema, custom_summary, config, discussionVars, qaVars >>

\* an iteration whose create() returns: the content is returned
AttemptReturns ==
    /\ request.pc = "loop"
    /\ request.attempt < max_retries
    /\ \E content \in Completions :
         request' = [request EXCEPT !.pc = "returned",
                                    !.log = Append(@, [ok |-> TRUE, val |-> content]),
                                    !.result = content]
    /\ UNCHANGED << max_retries, quote, storeVars, traceVars, impact, discussion_transcript, organized_data,
                    summary, schema, custom_summary, config, discussionVars, qaVars >>

\* an iteration whose create() raises: the error is kept, the attempt
\* counted, and the call sleeps min(2 ** attempt, 5) seconds
AttemptRaises ==
    /\ request.pc = "loop"
    /\ request.attempt < max_retries
    /\ \E e \in ServiceErrors :
         request' = [request EXCEPT !.log = Append(@, [ok |-> FALSE, val |-> e]),
                                    !.last_err = e,
                                    !.attempt = @ + 1,
                                    !.slept = @ + Min(2 ^ (request.attempt + 1), 5)]
    /\ UNCHANGED << max_retries, quote, storeVars, traceVars, impact, discussion_transcript, organized_data,
                    summary, schema, custom_summary, config, discussionVars, qaVars >>

\* the loop condition fails: the last error is raised if there is one,
\* else "" is returned
LoopEnds ==
    /\ request.pc = "loop"
    /\ ~(request.attempt < max_retries)
    /\ request' = IF request.last_err # "None"
                  THEN [request EXCEPT !.pc = "raised", !.exc = request.last_err]
                  ELSE [request EXCEPT !.pc = "returned", !.result = ""]
    /\ UNCHANGED << max_retries, quote, storeVars, traceVars, impact, discussion_transcript, organized_data,
                    summary, schema, custom_summary, config, discussionVars, qaVars >>

InitRetry ==
    /\ enabled = TRUE
    /\ llm_only = FALSE
    /\ plan_text = ""
    /\ personas = << Aditi, Rahul, Priya >>
    /\ DiscussionIdle
    /\ QAIdle
    /\ discussion_transcript = NoTranscript
    /\ organized_data = NoOrganized
    /\ summary = NoSummary
    /\ schema = << >>
    /\ custom_summary = NoCustomSummary
    /\ quote = << >>
    /\ impact = NoImpact
    /\ max_retries \in 0..MaxRetries
    /\ request = NoRequest
    /\ NoSession

NextRetry == StartCompletion \/ AttemptReturns \/ AttemptRaises \/ LoopEnds

SpecRetry == InitRetry /\ [][NextRetry]_vars

\* every attempt ends and the loop condition is tested again
FairSpecRetry == SpecRetry /\ WF_vars(NextRetry)

(***************************************************************************)
(* The fallback pipeline: conduct_discussion with the service disabled,    *)
(* then generate_summary, generate_custom_summary and answer_question on   *)
(* the transcript it returned.                                             *)
(***************************************************************************)
\* the outlines handed to generate_custom_summary in the pipeline: two
\* numbered sections, and an outline without sections
PipelineOutlines ==
    { <<"1", ".", " ", "K", "e", "y", " ", "I", "n", "s", "i", "g", "h", "t", "s", "\n",
        "2", ".", " ", "N", "e", "x", "t", " ", "S", "t", "e", "p", "s">>,
      <<"n", "o", "t", "e", "s">> }

\* the questions put to the assistant in the pipeline: on a participant, on
\* the themes, on the sentiment
PipelineQuestions ==
    { q \in Questions : q.text \in { "What did Rahul say about price?",
                                     "What were the main themes discussed?",
                                     "How do people feel?" } }

\* generate_summary on the returned transcript
SummarizeDiscussion ==
    /\ pc = "returned"
    /\ summary = NoSummary
    /\ discussion_transcript' = full_transcript
    /\ organized_data' = _organize_transcript_data(full_transcript)
    /\ summary' = generate_summary(full_transcript)
    /\ UNCHANGED << schema, custom_summary, quote, impact, max_retries, request, storeVars,
                    traceVars, config, discussionVars, qaVars >>

\* then generate_custom_summary on the returned transcript and an outline
OutlineDiscussion ==
    /\ pc = "returned"
    /\ summary # NoSummary
    /\ custom_summary = NoCustomSummary
    /\ \E outline \in PipelineOutlines,
          out \in (IF enabled THEN SummaryReplies ELSE {NoResponse}) :
         /\ schema' = outline
         /\ custom_summary' = generate_custom_summary(enabled, outline, personas, out)
         /\ service_called' =
              (service_called \/ CustomSummaryIssuesRequest(enabled, outline))
    /\ UNCHANGED << discussion_transcript, organized_data, summary, quote, impact,
                    max_retries, request, storeVars, coordinator_request, config,
                    discussionVars, qaVars >>

\* then answer_question, once, on the returned transcript; no summary is
\* handed over
AskAboutDiscussion ==
    /\ pc = "returned"
    /\ custom_summary # NoCustomSummary
    /\ qa_calls = 0
    /\ \E q \in PipelineQuestions,
          out \in (IF enabled THEN TextOutcomes ELSE {NoResponse}) :
         LET call == answer_question([enabled |-> enabled,
                                      context_memory |-> context_memory],
                                     q, full_transcript, << >>, personas, out, 1)
         IN /\ qa_question' = q.text
            /\ qa_response' = out
            /\ qa_result' = call.result
            /\ context_memory' = call.context_memory
    /\ qa_calls' = 1
    /\ service_called' = (service_called \/ QAIssuesRequest(enabled))
    /\ UNCHANGED << qa_exc, config, discussionVars, summaryVars, coordinator_request >>

InitFallback ==
    /\ enabled = FALSE
    /\ llm_only \in BOOLEAN
    /\ plan_text \in PlanTexts
    /\ personas \in Rosters
    /\ DiscussionIdle
    /\ QAIdle
    /\ OrganizerIdle

NextFallback ==
    \/ StartDiscussion
    \/ Opening
    \/ BeginPhase
    \/ AskPhaseQuestion
    \/ EndPhase
    \/ PostDiscussion
    \/ SummarizeDiscussion
    \/ OutlineDiscussion
    \/ AskAboutDiscussion

SpecFallback == InitFallback /\ [][NextFallback]_vars

(***************************************************************************)
(* main.py: a session of the store, its background discussion and the      *)
(* requests served meanwhile.  The event loop runs one handler, or one     *)
(* stretch of the background task between two awaits, at a time; a step of *)
(* conduct_discussion is taken as such a stretch, which allows a request   *)
(* wherever the task may yield and in more places besides.                 *)
(***************************************************************************)
\* as HasTranscript, for a handler that does not look
TranscriptTakenForGranted(stored) == TRUE

\* "discussion_transcript" in session_data
HasTranscript(stored) == stored # NoTranscript

\* the outline of the custom-summary requests
SessionOutline ==
    <<"1", ".", " ", "K", "e", "y", " ", "I", "n", "s", "i", "g", "h", "t", "s">>

\* the entries of a phase's questions from question i on, each answered in
\* roster order with neither interaction nor follow-up
RECURSIVE PlainQuestions(_, _, _)
PlainQuestions(phase, ps, i) ==
    IF i > Len(phase.questions) THEN << >>
    ELSE PhaseQuestion(phase.questions[i], phase.phase, ps,
                       Draw(Identity(ps), NoDynamics, 0),
                       [k \in DOMAIN ps |-> <<"Let me share my thoughts on this...">>])
         \o PlainQuestions(phase, ps, i + 1)

\* the entries of the phases of flow from phase i on
RECURSIVE PlainPhases(_, _, _)
PlainPhases(flow, ps, i) ==
    IF i > Len(flow) THEN << >>
    ELSE << PhaseStartEntry(<<"Let's move into ", flow[i].phase>>, flow[i].phase) >>
         \o PlainQuestions(flow[i], ps, 1)
         \o _create_phase_transition(flow[i].phase)
         \o PlainPhases(flow, ps, i + 1)

\* the transcript conduct_discussion returns for the phases of flow when
\* every random draw takes its first value
PlainDiscussion(flow, ps) ==
    << SetupEntry(ps) >> \o _create_pre_discussion_moments(ps)
    \o PlainPhases(flow, ps, 1) \o _create_post_discussion_moments(ps)

\* POST /start-discussion: the status is set and run_discussion scheduled
\* with a moderator and a manager of its own.  Here a session has one
\* background task at a time, and a discussion is started over only after
\* a failure, or after a plain discussion about which nothing was requested
\* yet.
start_discussion ==
    /\ \/ pc \in {"unscheduled", "failed"}
       \/ /\ pc = "stored"
          /\ served = NoServed
          /\ discussion_transcript = PlainDiscussion(discussion_flow, personas)
    /\ session_status' = "discussion_in_progress"
    /\ pc' = "idle"
    /\ exc' = "none"
    /\ discussion_flow' = << >>
    /\ full_transcript' = << >>
    /\ transcript' = << >>
    /\ turn' = 0
    /\ response' = NoResponse
    /\ directive' = NoDirective
    /\ phase_i' = 0
    /\ question_i' = 0
    /\ asked' = 0
    /\ phase_transcript' = << >>
    /\ UNCHANGED << sessionVars, config, qaVars, discussion_transcript, organized_data,
                    summary, schema, custom_summary, quote, impact, max_retries,
                    request, served, traceVars >>

\* run_discussion after conduct_discussion returned: the transcript is
\* stored in the session
StoreTranscript ==
    /\ pc = "returned"
    /\ discussion_transcript' = full_transcript
    /\ session_status' = "discussion_completed"
    /\ pc' = "stored"
    /\ UNCHANGED << exc, discussion_flow, full_transcript, loopVars, phaseVars,
                    sessionVars, config, qaVars, organized_data, summary, schema,
                    custom_summary, quote, impact, max_retries, request, served,
                    traceVars >>

\* run_discussion after conduct_discussion raised: the error is stored
StoreError ==
    /\ pc = "raised"
    /\ session_status' = "error"
    /\ pc' = "failed"
    /\ UNCHANGED << exc, discussion_flow, full_transcript, loopVars, phaseVars,
                    sessionVars, config, qaVars, discussion_transcript, organized_data,
                    summary, schema, custom_summary, quote, impact, max_retries,
                    request, served, traceVars >>

\* POST /ask-question: refused when the session holds no transcript (the
\* 400 raised inside the try is caught and sent as a 500), else answered
\* by a fresh assistant from the stored transcript; the session is not
\* written
ask_question ==
    /\ session_status # "none"
    /\ served' = IF HasTranscript(discussion_transcript)
                 THEN [endpoint |-> "ask-question", code |-> 200,
                       transcript |-> discussion_transcript]
                 ELSE [endpoint |-> "ask-question", code |-> 500,
                       transcript |-> << >>]
    /\ UNCHANGED << session_status, config, discussionVars, qaVars, traceVars,
                    discussion_transcript, organized_data, summary, schema,
                    custom_summary, quote, impact, max_retries, request >>

\* POST /generate-custom-summary: refused likewise, else the summary of the
\* stored transcript is stored with the status "summary_generated"
generate_custom_summary_request ==
    /\ session_status # "none"
    /\ IF HasTranscript(discussion_transcript)
       THEN /\ served' = [endpoint |-> "generate-custom-summary", code |-> 200,
                          transcript |-> discussion_transcript]
            /\ schema' = SessionOutline
            /\ custom_summary' =
                 generate_custom_summary(enabled, SessionOutline, personas, NoResponse)
            /\ session_status' = "summary_generated"
       ELSE /\ served' = [endpoint |-> "generate-custom-summary", code |-> 500,
                          transcript |-> << >>]
            /\ UNCHANGED << schema, custom_summary, session_status >>
    /\ UNCHANGED << config, discussionVars, qaVars, traceVars, discussion_transcript,
                    organized_data, summary, quote, impact, max_retries, request >>

\* a session with its personas, no discussion started yet
InitSession ==
    /\ enabled = FALSE
    /\ llm_only = FALSE
    /\ plan_text = ""
    /\ personas \in Rosters
    /\ pc = "unscheduled"
    /\ exc = "none"
    /\ discussion_flow = << >>
    /\ full_transcript = << >>
    /\ transcript = << >>
    /\ turn = 0
    /\ response = NoResponse
    /\ directive = NoDirective
    /\ phase_i = 0
    /\ question_i = 0
    /\ asked = 0
    /\ phase_transcript = << >>
    /\ session_active = FALSE
    /\ current_session = "None"
    /\ QAIdle
    /\ discussion_transcript = NoTranscript
    /\ organized_data = NoOrganized
    /\ summary = NoSummary
    /\ schema = << >>
    /\ custom_summary = NoCustomSummary
    /\ quote = << >>
    /\ impact = NoImpact
    /\ max_retries = DefaultMaxRetries
    /\ request = NoRequest
    /\ session_status = "personas_generated"
    /\ served = NoServed
    /\ service_called = FALSE
    /\ coordinator_request = NoPrompt

NextSession ==
    \/ start_discussion
    \/ StartDiscussion
    \/ Opening
    \/ BeginPhase
    \/ AskPhaseQuestion
    \/ EndPhase
    \/ PostDiscussion
    \/ StoreTranscript
    \/ StoreError
    \/ ask_question
    \/ generate_custom_summary_request

SpecSession == InitSession /\ [][NextSession]_vars

(***************************************************************************)
(* Properties of conduct_discussion and of the agentic loop.               *)
(***************************************************************************)
Returned == pc = "returned"

\* this step is an iteration of the agentic loop in which the Coordinator
\* returned a directive (the service call did not raise)
DirectiveStep == pc = "loop" /\ turn' = turn + 1 /\ ~response'.raise

\* the value of the directive's action is one of the five of the vocabulary
\* (compared as the loop compares it, lower-cased)
Vocabulary == {"ask_question", "participant_turn", "interrupt", "wrap_up", "end"}

HasAction(d, a) ==
    LET v == Get(d, "action") IN IsStr(v) /\ Lower(v.v) = a

\* C1: every transcript conduct_discussion returns opens with a setup entry
\* that carries the names of the input participants, in order, and closes
\* with a conclusion entry.
C1_SetupFirstConclusionLast ==
    Returned =>
        /\ full_transcript # << >>
        /\ full_transcript[1].type = "setup"
        /\ full_transcript[1].participants = [i \in DOMAIN personas |-> personas[i].name]
        /\ full_transcript[Len(full_transcript)].type = "conclusion"

\* a transcript returned by the agentic body after two or more turns
C1_Witness == Returned /\ enabled /\ turn >= 2 /\ Len(full_transcript) > 10

\* C2 (as claimed): at most 30 directives are requested, and when the 30th
\* directive has been returned and it is neither end nor wrap_up, the
\* discussion goes on to the post-discussion entries without raising: a
\* returned transcript then ends with wrap_up ... conclusion.
C2_BudgetThenWrapUp ==
    /\ turn <= max_turns
    /\ (turn = max_turns /\ ~response.raise
            /\ ~HasAction(directive, "end") /\ ~HasAction(directive, "wrap_up"))
       => /\ pc \in {"post", "returned"}
          /\ exc = "none"
          /\ Returned =>
               /\ \E i \in DOMAIN full_transcript :
                    /\ full_transcript[i].type = "wrap_up"
                    /\ i > Len(full_transcript) - 4
               /\ full_transcript[Len(full_transcript)].type = "conclusion"

\* C3 (as claimed): after end the loop appends nothing and stops; after
\* wrap_up it appends one Moderator wrap_up entry and stops; after any
\* other directive, with budget left, the loop goes on to another turn.
C3_OnlyEndAndWrapUpStop ==
    [][ DirectiveStep =>
          /\ HasAction(directive', "end") =>
               transcript' = transcript /\ pc' = "post"
          /\ HasAction(directive', "wrap_up") =>
               /\ Len(transcript') = Len(transcript) + 1
               /\ SubSeq(transcript', 1, Len(transcript)) = transcript
               /\ transcript'[Len(transcript')].type = "wrap_up"
               /\ transcript'[Len(transcript')].speaker = "Moderator"
               /\ pc' = "post"
          /\ (~HasAction(directive', "end") /\ ~HasAction(directive', "wrap_up")
                /\ turn' < max_turns) => pc' = "loop" ]_vars

\* C4 (as claimed): with the service enabled and LLM-only mode not set, a
\* failing service call never reaches the caller of conduct_discussion.
C4_ServiceFailureFallsBack ==
    (enabled /\ ~llm_only) => exc # "LLMError"

\* the reply to the last Coordinator request parsed as JSON, to a value
\* that is not an object
NonObjectJson == ~response.raise /\ response.form = "json" /\ ~IsDict(response.val)

\* the reply to the last Coordinator request could not be parsed at all
UnparsableText == ~response.raise /\ response.form = "text"

LastEntry(tr) == tr[Len(tr)]

\* C5 (as claimed): whenever the reply to a Coordinator request is not a
\* JSON object - unparsable text, an array or a scalar - the directive is
\* wrap_up and nothing is raised.
C5_NonObjectReplyWrapsUp ==
    (turn >= 1 /\ (UnparsableText \/ NonObjectJson)) =>
        HasAction(directive, "wrap_up") /\ exc = "none"

\* C5 (amended): a reply that parses as a JSON array or scalar yields the
\* wrap_up directive without raising, and the loop ends on that turn with
\* the Moderator's closing entry; a reply that cannot be parsed reaches the
\* Coordinator as the object {content: raw}, is returned as a directive
\* without action, and the loop asks the generic question and goes on.
C5_NonObjectJsonWrapsUp ==
    /\ (turn >= 1 /\ NonObjectJson) =>
          /\ HasAction(directive, "wrap_up")
          /\ exc = "none"
          /\ pc \in {"post", "returned"}
          /\ LastEntry(transcript).type = "wrap_up"
          /\ LastEntry(transcript).speaker = "Moderator"
    /\ (turn >= 1 /\ UnparsableText) =>
          /\ Get(directive, "action") = JNull
          /\ Get(directive, "content") # JNull
          /\ exc = "none"
          /\ pc = "loop" \/ turn = max_turns
          /\ transcript[Len(transcript) - Len(personas)].type = "question"
          /\ transcript[Len(transcript) - Len(personas)].content
               = <<"What stands out to you regarding ", topic>>

\* the loop has just ended on an array reply, with the closing entry
C5_Witness ==
    /\ pc = "post" /\ turn >= 2 /\ NonObjectJson
    /\ response.val.t = "list"
    /\ LastEntry(transcript).type = "wrap_up"

\* the questions of a transcript, in order
QuestionsOf(tr) ==
    LET qs == SelectSeq(tr, LAMBDA e : e.type = "question")
    IN [i \in DOMAIN qs |-> qs[i].content]

RECURSIVE FlowQuestions(_)
FlowQuestions(flow) ==
    IF flow = << >> THEN << >>
    ELSE Head(flow).questions \o FlowQuestions(Tail(flow))

C7_LlmOnlyAnswerIsFatal ==
    (llm_only /\ qa_calls > 0 /\ (~enabled \/ qa_response.raise)) =>
        qa_exc # "none" /\ ~qa_result.built

\* C8: a directive with action ask_question makes the loop append exactly
\* one Moderator question - the directive's moderator_question, or the
\* topic-based question when that is absent or empty - then one response per
\* roster participant, and go on to the next turn.
C8_AskQuestionTurn ==
    [][ (DirectiveStep /\ HasAction(directive', "ask_question")) =>
          LET n == Len(personas)
              old == Len(transcript)
              mq == Get(directive', "moderator_question")
          IN /\ Len(transcript') = old + 1 + n
             /\ SubSeq(transcript', 1, old) = transcript
             /\ transcript'[old + 1].type = "question"
             /\ transcript'[old + 1].speaker = "Moderator"
             /\ transcript'[old + 1].content =
                  IF IsStr(mq) /\ mq.s # << >>
                  THEN mq.s ELSE <<"Could you share more about ", topic>>
             /\ \A i \in 1..n : transcript'[old + 1 + i].type = "response"
             /\ { transcript'[old + 1 + i].speaker : i \in 1..n }
                  = { personas[i].name : i \in 1..n }
             /\ exc' = "none"
             /\ pc' = IF turn' < max_turns THEN "loop" ELSE "post" ]_vars

\* the loop goes on after asking the topic-based question of a directive
\* that carries an empty moderator_question
C8_Witness ==
    /\ pc = "loop" /\ turn = 1 /\ HasAction(directive, "ask_question")
    /\ Get(directive, "moderator_question") = JText(<< >>)
    /\ Len(transcript) = 2 + Len(personas)
    /\ transcript[2].content = <<"Could you share more about ", topic>>

\* C9: a directive with action participant_turn or interrupt makes the loop
\* append exactly one entry, spoken by the roster participant the directive
\* names, or by the first participant when the name is missing or matches
\* nobody; its type is response for participant_turn and interaction for
\* interrupt; nothing is raised and the loop goes on.
C9_SingleSpeakerTurn ==
    [][ (DirectiveStep /\ (HasAction(directive', "participant_turn")
                            \/ HasAction(directive', "interrupt"))) =>
          LET old == Len(transcript)
              name == Get(directive', "speaker")
              onRoster == IsStr(name) /\ \E i \in DOMAIN personas :
                                            personas[i].name = name.v
          IN /\ Len(transcript') = old + 1
             /\ SubSeq(transcript', 1, old) = transcript
             /\ transcript'[old + 1].speaker =
                  IF onRoster THEN name.v ELSE personas[1].name
             /\ transcript'[old + 1].type =
                  IF HasAction(directive', "participant_turn")
                  THEN "response" ELSE "interaction"
             /\ exc' = "none"
             /\ pc' = IF turn' < max_turns THEN "loop" ELSE "post" ]_vars

\* an interrupt naming somebody who is not on the roster was given to the
\* first participant
C9_Witness ==
    /\ pc = "loop" /\ turn = 1 /\ HasAction(directive, "interrupt")
    /\ Get(directive, "speaker") = JStr("Nobody")
    /\ LastEntry(transcript).speaker = personas[1].name
    /\ LastEntry(transcript).type = "interaction"

\* C10 (as claimed): a directive whose action is missing, empty or any
\* value outside the vocabulary makes the loop append the generic question
\* and one response per participant, and go on without raising.
C10_UnknownActionAsksGroup ==
    [][ (DirectiveStep /\ \A a \in Vocabulary : ~HasAction(directive', a)) =>
          LET n == Len(personas)
              old == Len(transcript)
          IN /\ exc' = "none"
             /\ pc' = IF turn' < max_turns THEN "loop" ELSE "post"
             /\ Len(transcript') = old + 1 + n
             /\ transcript'[old + 1].type = "question"
             /\ transcript'[old + 1].content
                  = <<"What stands out to you regarding ", topic>>
             /\ \A i \in 1..n : transcript'[old + 1 + i].type = "response" ]_vars

(***************************************************************************)
(* Properties of the responses collected for a group question.             *)
(***************************************************************************)
\* the n entries of tr after position at are the responses of the whole
\* roster ps: each participant once, the i-th with speaking_order i
RosterResponds(tr, at, ps) ==
    LET n == Len(ps)
    IN /\ Len(tr) >= at + n
       /\ \A i \in 1..n :
             /\ tr[at + i].type = "response"
             /\ tr[at + i].speaking_order = i
       /\ \E p \in Perms(ps) : \A i \in 1..n : tr[at + i].speaker = ps[p[i]].name
       /\ \A i, j \in 1..n : i # j => tr[at + i].speaker # tr[at + j].speaker

\* this step appended a question entry to the sequence old, giving new
AsksAt(old, new) ==
    /\ Len(new) > Len(old)
    /\ new[Len(old) + 1].type = "question"

\* C11: whenever a question is put to the whole group, in a phase of the
\* flow or in a turn of the agentic loop, the entries appended after it are
\* one response per roster participant, nobody twice, the i-th appended
\* response carrying speaking_order i.
C11_ResponsesPermuteRoster ==
    [][ /\ AsksAt(phase_transcript, phase_transcript') =>
              RosterResponds(phase_transcript', Len(phase_transcript) + 1, personas)
        /\ AsksAt(transcript, transcript') =>
              RosterResponds(transcript', Len(transcript) + 1, personas) ]_vars

\* a phase question answered in the order third, first, second participant
C11_Witness ==
    /\ pc = "questions" /\ question_i = 2 /\ Len(personas) = 3
    /\ phase_transcript[2].type = "question"
    /\ phase_transcript[3].speaker = personas[3].name
    /\ phase_transcript[4].speaker = personas[1].name
    /\ phase_transcript[5].speaker = personas[2].name
    /\ phase_transcript[5].speaking_order = 3

(***************************************************************************)
(* Properties of the transcript organizer.                                 *)
(***************************************************************************)
Organized == organized_data # NoOrganized

\* the positions of the organized transcript that hold a response entry
\* of a speaker other than Moderator
ResponsePositions ==
    { i \in DOMAIN discussion_transcript :
        /\ discussion_transcript[i].type = "response"
        /\ discussion_transcript[i].speaker # "Moderator" }

\* where the response entry of position i (its timestamp) sits in the
\* participant buckets: pairs of bucket and place in its response list
BucketHits(i) ==
    { bk \in (DOMAIN organized_data.participants) \X (DOMAIN discussion_transcript) :
        /\ bk[2] \in DOMAIN organized_data.participants[bk[1]].responses
        /\ organized_data.participants[bk[1]].responses[bk[2]].timestamp = i }

\* where it sits in the response lists of the questions
QuestionHits(i) ==
    { qk \in (DOMAIN organized_data.questions) \X (DOMAIN discussion_transcript) :
        /\ qk[2] \in DOMAIN organized_data.questions[qk[1]].responses
        /\ organized_data.questions[qk[1]].responses[qk[2]].timestamp = i }

\* the number of question entries before position i: the index of the most
\* recently seen question, 0 when there is none
QuestionsBefore(i) ==
    Cardinality({ j \in 1..(i - 1) : discussion_transcript[j].type = "question" })

\* the response of position i is linked to the most recently seen question
\* and to no other, to none when no question precedes it
LinkedToOpenQuestion(i) ==
    IF QuestionsBefore(i) = 0
    THEN QuestionHits(i) = {}
    ELSE /\ Cardinality(QuestionHits(i)) = 1
         /\ \A qk \in QuestionHits(i) : qk[1] = QuestionsBefore(i)

\* C12 (as claimed): after organize, every response entry of a speaker
\* other than Moderator is in exactly one participant bucket and is linked
\* to the most recently seen question only (to none if none precedes it).
C12_ResponseInOneBucket ==
    Organized =>
        \A i \in ResponsePositions :
            /\ Cardinality(BucketHits(i)) = 1
            /\ LinkedToOpenQuestion(i)

\* C12 (amended): every response entry of a speaker other than Moderator
\* and System is in exactly one participant bucket, that of its speaker; a
\* response entry of System is in no bucket; either is linked to the most
\* recently seen question only (to none if none precedes it).
C12_ParticipantResponseInOneBucket ==
    Organized =>
        \A i \in ResponsePositions :
            /\ IF discussion_transcript[i].speaker = "System"
               THEN BucketHits(i) = {}
               ELSE /\ Cardinality(BucketHits(i)) = 1
                    /\ \A bk \in BucketHits(i) :
                          organized_data.participants[bk[1]].name
                            = discussion_transcript[i].speaker
            /\ LinkedToOpenQuestion(i)

\* a question, a response, a second question and a response to it were
\* organized: the last response is linked to the second question
C12_Witness ==
    /\ Organized
    /\ Len(discussion_transcript) = 3
    /\ discussion_transcript[1].type = "question"
    /\ discussion_transcript[2].type = "question"
    /\ discussion_transcript[3].type = "response"
    /\ discussion_transcript[3].speaker = "Rahul"
    /\ Len(organized_data.questions[2].responses) = 1
    /\ organized_data.participants[1].speaking_count = 1

RECURSIVE SpeakingCounts(_)
SpeakingCounts(participants) ==
    IF participants = << >> THEN 0
    ELSE Head(participants).speaking_count + SpeakingCounts(Tail(participants))

\* the speakers of a transcript other than Moderator and System
ParticipantSpeakers(tr) ==
    { tr[i].speaker : i \in DOMAIN tr } \ {"Moderator", "System"}

\* C13: organizing the transcript of a phase-flow discussion yields exactly
\* one participant bucket per distinct speaker other than Moderator and
\* System, and the buckets' speaking_count sum to the number of response
\* entries whose speaker is neither Moderator nor System.
C13_BucketsMatchSpeakers ==
    (Organized /\ Returned /\ ~enabled) =>
        LET parts == organized_data.participants
            tr == discussion_transcript
        IN /\ \A i, j \in DOMAIN parts : i # j => parts[i].name # parts[j].name
           /\ { parts[i].name : i \in DOMAIN parts } = ParticipantSpeakers(tr)
           /\ SpeakingCounts(parts)
                = Cardinality({ i \in DOMAIN tr :
                                  /\ tr[i].type = "response"
                                  /\ tr[i].speaker \notin {"Moderator", "System"} })

\* the transcript of the six-phase template with three participants was
\* organized: three buckets, each with one response per question
C13_Witness ==
    /\ Organized /\ Returned /\ ~enabled /\ ~llm_only
    /\ Len(organized_data.participants) = 3
    /\ \A i \in 1..3 : organized_data.participants[i].speaking_count = 22
    /\ organized_data.interactions # << >>

(***************************************************************************)
(* Properties of the default summary.                                      *)
(***************************************************************************)
Summarized == summary # NoSummary

\* C14 (as claimed): the supporting_quotes of the default summary are at
\* most three and no two of them have the same speaker.
C14_QuotesDistinctSpeakers ==
    Summarized =>
        LET quotes == summary.supporting_quotes
        IN /\ Len(quotes) <= 3
           /\ \A i, j \in DOMAIN quotes : i # j => quotes[i].speaker # quotes[j].speaker

\* C15: the key_insights of the default summary are between three and five,
\* for every transcript, the empty one included.
C15_ThreeToFiveInsights ==
    Summarized =>
        /\ Len(summary.key_insights) >= 3
        /\ Len(summary.key_insights) <= 5

\* the summary of four participants of four personality types who spoke of
\* price, brand, reviews and online: five gated insights, no filler
C15_Witness ==
    /\ Summarized
    /\ Len(organized_data.participants) = 4
    /\ summary.key_insights = << "quality_over_price", "peer_recommendations",
                                 "digital_first", "brand_reputation",
                                 "tailored_approaches" >>

(***************************************************************************)
(* Properties of the custom summary.                                       *)
(***************************************************************************)
FallbackSummary == custom_summary.path = "fallback"

\* C16 (as claimed): in fallback mode the custom summary has one key per
\* parsed outline entry plus the metadata key, k + 1 keys for k entries, and
\* the metadata key holds the metadata block.
C16_OneKeyPerOutlineEntry ==
    FallbackSummary =>
        LET sections == _parse_schema(schema)
            pairs == custom_summary.pairs
        IN /\ Len(pairs) = Len(sections) + 1
           /\ \A i \in DOMAIN sections : \E j \in DOMAIN pairs : pairs[j].k = sections[i].key
           /\ \E j \in DOMAIN pairs :
                 /\ pairs[j].k = MetadataKey
                 /\ pairs[j].v = Metadata(schema, personas)

\* C17: the key of a section is derived from the title alone, so two
\* sections parsed from the same line have the same key; deriving a key
\* from a derived key returns it unchanged; and a key holds word characters
\* only: no whitespace, and no punctuation but the underscore.
C17_KeyDerivationIdempotent ==
    custom_summary # NoCustomSummary =>
        LET sections == _parse_schema(schema)
        IN /\ \A i, j \in DOMAIN sections :
                 sections[i].original_line = sections[j].original_line
                    => sections[i].key = sections[j].key
           /\ \A i \in DOMAIN sections :
                 /\ sections[i].key = SectionKey(sections[i].title)
                 /\ SectionKey(sections[i].key) = sections[i].key
                 /\ \A n \in DOMAIN sections[i].key :
                       /\ sections[i].key[n] \in WordChars
                       /\ sections[i].key[n] \notin Whitespace

\* the outline "- Q & A" followed by "3. a<tab>b!" was summarized: the keys
\* are q_and_a and ab
C17_Witness ==
    /\ FallbackSummary
    /\ Len(custom_summary.pairs) = 3
    /\ custom_summary.pairs[2].k = <<"q", "_", "a", "n", "d", "_", "a">>
    /\ custom_summary.pairs[3].k = <<"a", "b">>

(***************************************************************************)
(* Properties of the quote-impact score.                                   *)
(***************************************************************************)
Scored == impact # NoImpact

\* the content with a space and the word w appended
Lengthened(w) == quote \o <<" ">> \o w

\* C18 (as claimed): appending an emotional-indicator word never decreases
\* the score, and a 60-character content scores at least as high as its
\* first 10 characters.
C18_ImpactMonotonic ==
    Scored =>
        /\ \A w \in emotional_words : impact.appended[w] >= impact.content
        /\ Len(quote) = 60 => impact.content >= impact.prefix

\* C18 (amended): appending an emotional-indicator word never decreases
\* the score as long as the lengthened content does not pass from at most
\* 200 characters to more than 200; when it does, the length bonus turns
\* into the penalty and the score may go down, by 3 at most (by 1 when the
\* word is new to the content).  A 60-character content scores at least as
\* high as its first 10 characters.
C18_ImpactMonotonicWithinLengthBand ==
    Scored =>
        /\ \A w \in emotional_words :
             IF Len(quote) <= 200 /\ Len(Lengthened(w)) > 200
             THEN /\ impact.appended[w] >= impact.content - 3
                  /\ ~Contains(lower(quote), w) =>
                        impact.appended[w] >= impact.content - 1
             ELSE impact.appended[w] >= impact.content
        /\ Len(quote) = 60 => impact.content >= impact.prefix

\* a 196-character content that holds "love" was scored: lengthened by
\* " love" it has 201 characters and loses three points; and a 60-character
\* content was scored whose first 10 characters cut the word "love"
C18_Witness ==
    /\ Scored
    /\ \/ /\ Len(quote) = 196
          /\ Contains(quote, <<"l", "o", "v", "e">>)
          /\ impact.appended[<<"l", "o", "v", "e">>] = impact.content - 3
       \/ /\ Len(quote) = 60
          /\ Contains(quote, <<"l", "o", "v", "e">>)
          /\ ~Contains(FirstN(quote, 10), <<"l", "o", "v", "e">>)
          /\ impact.content = impact.prefix + 4

(***************************************************************************)
(* Properties of answer_question.                                          *)
(***************************************************************************)
\* C19: in fallback mode the result of answer_question is a function of
\* its inputs only.  A call that asks a question the assistant remembers,
\* on the same transcript, summary and participants, classifies it as
\* before, and when both answers come from the builders (as they always do
\* with the service disabled), returns the result it returned before,
\* whatever was asked in between.
C19_FallbackAnswerIgnoresHistory ==
    [][ (qa_calls' = qa_calls + 1 /\ qa_question' \in DOMAIN context_memory) =>
          LET before == context_memory[qa_question']
          IN /\ context_memory'[qa_question'].category = before.category
             /\ (~enabled => qa_result'.built /\ before.answer.built)
             /\ (qa_result'.built /\ before.answer.built) =>
                    /\ qa_result'.answer = before.answer.answer
                    /\ qa_result' = before.answer ]_vars

\* with the service disabled, on a session with a transcript, a question
\* was asked in the first call, another question in the second, and the
\* first question again in the third, and the builder wrote an answer that
\* quotes the transcript
C19_Witness ==
    /\ ~enabled
    /\ discussion_transcript # << >>
    /\ qa_calls = 3
    /\ Cardinality(DOMAIN context_memory) = 2
    /\ context_memory[qa_question].timestamp = 3
    /\ \E k \in DOMAIN context_memory : context_memory[k].timestamp = 2
    /\ qa_result.built
    /\ \E i \in DOMAIN qa_result.answer : qa_result.answer[i].data # << >>

(***************************************************************************)
(* Properties of _chat_completion.                                         *)
(***************************************************************************)
RequestOver == request.pc \in { "returned", "raised" }

Succeeded(i) == request.log[i].ok

\* at most max_retries attempts; an attempt that succeeds is the last one,
\* and its content is what the call returns
AttemptsBounded ==
    /\ Len(request.log) <= max_retries
    /\ \A i \in DOMAIN request.log : Succeeded(i) => i = Len(request.log)
    /\ (RequestOver /\ \E i \in DOMAIN request.log : Succeeded(i)) =>
          /\ request.pc = "returned"
          /\ request.result = request.log[Len(request.log)].val

\* C20: a request is attempted at most max_retries times; the first
\* successful attempt's result is returned and no further attempt is made;
\* a request that ends without a successful attempt ends by raising the
\* last error.
C20_BoundedRetriesThenRaise ==
    /\ AttemptsBounded
    /\ (RequestOver /\ \A i \in DOMAIN request.log : ~Succeeded(i)) =>
          /\ request.pc = "raised"
          /\ request.log # << >>
          /\ request.exc = request.log[Len(request.log)].val

\* what holds of the code: the same when max_retries is at least one; with
\* max_retries = 0 the call returns "" without an attempt
RetriesThenRaiseWhenPositive ==
    /\ AttemptsBounded
    /\ (RequestOver /\ \A i \in DOMAIN request.log : ~Succeeded(i)) =>
          IF max_retries >= 1
          THEN /\ request.pc = "raised"
               /\ Len(request.log) = max_retries
               /\ request.exc = request.log[Len(request.log)].val
          ELSE request.pc = "returned" /\ request.result = "" /\ request.log = << >>

\* a request that was entered ends
RequestTerminates == (request.pc = "loop") ~> RequestOver

(***************************************************************************)
(* C21.  Fallback mode issues no request to the generation service.        *)
(***************************************************************************)
\* the backend mode of the claim: the service disabled, LLM_ONLY not set
FallbackMode == ~enabled /\ ~llm_only

\* none of the four operations has failed
NoOperationFailed == pc # "raised" /\ exc = "none" /\ qa_exc = "none"

\* the results of the operations made so far are results: a transcript
\* that ends with the conclusion entry, a summary with its metadata, a
\* custom summary with its metadata, an answer of the local builders
ResultsReturned ==
    /\ pc = "returned" =>
          /\ full_transcript # << >>
          /\ full_transcript[Len(full_transcript)].type = "conclusion"
    /\ summary # NoSummary => summary.metadata.total_exchanges >= 0
    /\ custom_summary # NoCustomSummary =>
          /\ custom_summary.path = "fallback"
          /\ custom_summary.pairs # << >>
          /\ custom_summary.pairs[1].k = MetadataKey
    /\ qa_calls > 0 =>
          /\ qa_result # NoResult
          /\ qa_result.source_type # "llm"
          /\ qa_response = NoResponse

\* C21 as stated: with the service disabled and LLM_ONLY not set,
\* conduct_discussion, generate_summary, generate_custom_summary and
\* answer_question complete with a result and no request is issued to the
\* generation service.
C21_FallbackCompletesWithoutRequest ==
    FallbackMode => ~service_called /\ NoOperationFailed /\ ResultsReturned

\* C21 for a roster of at least three participants: in fallback mode no
\* operation fails, every result produced is a result of the local
\* builders, and no request is issued to the generation service; with a
\* smaller roster no request is issued either.
C21_FallbackWithThreeParticipants ==
    FallbackMode =>
        /\ ~service_called
        /\ ResultsReturned
        /\ Len(personas) >= 3 => NoOperationFailed

\* the four operations have returned in fallback mode
C21_Witness ==
    /\ FallbackMode
    /\ Len(personas) >= 3
    /\ pc = "returned"
    /\ summary # NoSummary
    /\ custom_summary # NoCustomSummary
    /\ qa_calls > 0
    /\ ~service_called

(***************************************************************************)
(* C28.  Fewer than three participants.                                    *)
(***************************************************************************)
TooFewParticipants == Len(personas) < 3

\* conduct_discussion is past the pre-discussion chatter
PastOpening == pc \in {"loop", "phases", "questions", "post", "returned"}

\* C28 as stated: with fewer than three participants conduct_discussion
\* fails while building the pre-discussion chatter (the IndexError of
\* _create_pre_discussion_moments) and returns no transcript, whatever the
\* backend mode.
C28_FailsInPreDiscussionChatter ==
    TooFewParticipants =>
        /\ ~PastOpening
        /\ pc = "raised" => exc = "IndexError"

\* C28 with the earlier failure: with fewer than three participants
\* conduct_discussion never gets past the pre-discussion chatter and
\* returns no transcript; it fails there with IndexError, unless LLM_ONLY is
\* set and the generation of the discussion flow has failed before, with
\* no transcript entry built.
C28_TooFewParticipantsFail ==
    TooFewParticipants =>
        /\ ~PastOpening
        /\ pc = "raised" =>
              \/ exc = "IndexError"
              \/ /\ llm_only
                 /\ exc \in {"LLMError", "RuntimeError"}
                 /\ full_transcript = << >>

\* two participants: the failure in the pre-discussion chatter, the
\* service enabled
C28_Witness ==
    /\ TooFewParticipants
    /\ enabled
    /\ pc = "raised"
    /\ exc = "IndexError"
    /\ ~session_active

(***************************************************************************)
(* C29.  The participant-engine session.                                   *)
(***************************************************************************)
\* conduct_discussion is between start_session and its exit
InDiscussion == pc \in {"opening", "loop", "phases", "questions", "post"}

\* conduct_discussion was left, by return or by an exception
DiscussionExited == pc \in {"returned", "raised"}

Reader(mode, phase, responses) == [mode |-> mode, phase |-> phase, responses |-> responses]

\* the reader after one more entry; mode "bad" when the entry is out of order
ReadEntry(r, e, roster) ==
    LET to(mode) == Reader(mode, r.phase, 0)
        bad == to("bad")
        \* all responses of the question were given
        full == r.responses = roster
    IN CASE r.mode = "start" ->
              IF e.type = "setup" /\ e.speaker = "System" THEN to("setup") ELSE bad
         [] r.mode \in {"setup", "pre"} ->
              IF e.type \in {"setup", "casual"} THEN to("pre")
              ELSE IF e.type = "phase_start" THEN Reader("phase_start", e.phase, 0)
              ELSE IF e.type = "wrap_up" THEN to("wrap_up")
              ELSE bad
         [] r.mode = "phase_start" ->
              IF e.type = "question" /\ e.phase = r.phase THEN to("question")
              ELSE IF e.type = "phase_start" THEN Reader("phase_start", e.phase, 0)
              ELSE IF e.type \in {"transition", "wrap_up"} THEN to(e.type)
              ELSE bad
         [] r.mode = "question" ->
              IF e.type = "response" THEN Reader("question", r.phase, r.responses + 1)
              ELSE IF ~full THEN bad
              ELSE IF e.type = "interaction" THEN Reader("interaction", r.phase, roster)
              ELSE IF e.type = "moderator_follow_up"
                   THEN Reader("moderator_follow_up", r.phase, roster)
              ELSE IF e.type = "question" /\ e.phase = r.phase THEN to("question")
              ELSE IF e.type = "phase_start" THEN Reader("phase_start", e.phase, 0)
              ELSE IF e.type \in {"transition", "wrap_up"} THEN to(e.type)
              ELSE bad
         [] r.mode = "interaction" ->
              IF e.type = "moderator_follow_up"
              THEN Reader("moderator_follow_up", r.phase, roster)
              ELSE IF e.type = "question" /\ e.phase = r.phase THEN to("question")
              ELSE IF e.type = "phase_start" THEN Reader("phase_start", e.phase, 0)
              ELSE IF e.type \in {"transition", "wrap_up"} THEN to(e.type)
              ELSE bad
         [] r.mode = "moderator_follow_up" ->
              IF e.type = "question" /\ e.phase = r.phase THEN to("question")
              ELSE IF e.type = "phase_start" THEN Reader("phase_start", e.phase, 0)
              ELSE IF e.type \in {"transition", "wrap_up"} THEN to(e.type)
              ELSE bad
         [] r.mode = "transition" ->
              IF e.type = "phase_start" THEN Reader("phase_start", e.phase, 0)
              ELSE IF e.type = "wrap_up" THEN to("wrap_up")
              ELSE bad
         [] r.mode \in {"wrap_up", "post"} ->
              IF e.type = "casual" THEN to("post")
              ELSE IF e.type = "conclusion" THEN to("conclusion")
              ELSE bad
         [] OTHER -> bad

RECURSIVE ReadFrom(_, _, _, _)
ReadFrom(r, t, i, roster) ==
    IF i > Len(t) \/ r.mode = "bad" THEN r
    ELSE ReadFrom(ReadEntry(r, t[i], roster), t, i + 1, roster)

\* the reader at the end of the transcript
ReadTranscript(t, roster) == ReadFrom(Reader("start", "None", 0), t, 1, roster)

\* the phases of the phase_start entries, and the questions, in order
PhasesStarted(t) ==
    LET starts == SelectSeq(t, LAMBDA e : e.type = "phase_start")
    IN [i \in DOMAIN starts |-> starts[i].phase]

QuestionsPut(t) ==
    LET questions == SelectSeq(t, LAMBDA e : e.type = "question")
    IN [i \in DOMAIN questions |-> << questions[i].phase, questions[i].content >>]

\* the phases of the flow up to phase n, and their questions, in flow order
RECURSIVE PhasedQuestions(_, _)
PhasedQuestions(flow, n) ==
    IF n = 0 THEN << >>
    ELSE PhasedQuestions(flow, n - 1)
         \o [j \in DOMAIN flow[n].questions |-> << flow[n].phase, flow[n].questions[j] >>]

\* the phase-flow body was used
PhaseFlowMode == ~enabled

\* C23: in phase-flow mode the entries come in the order setup, chatter,
\* then per phase of the flow one phase_start and per question the
\* question, a response of every participant, at most one interaction, at
\* most one moderator_follow_up, then at most one transition, and at the
\* end wrap_up, chatter, conclusion; every question carries the phase of
\* the last phase_start, and no response stands before the first question
\* or after the wrap_up.
C23_PhaseFlowOrder ==
    PhaseFlowMode =>
        /\ ReadTranscript(full_transcript, Len(personas)).mode # "bad"
        /\ pc = "returned" =>
              /\ ReadTranscript(full_transcript, Len(personas)).mode = "conclusion"
              /\ PhasesStarted(full_transcript)
                    = [i \in DOMAIN discussion_flow |-> discussion_flow[i].phase]
              /\ QuestionsPut(full_transcript)
                    = PhasedQuestions(discussion_flow, Len(discussion_flow))

\* a returned phase-flow transcript with an interaction followed by a
\* follow-up, and transitions
C23_Witness ==
    /\ PhaseFlowMode
    /\ pc = "returned"
    /\ Len(discussion_flow) = 6
    /\ \E i \in 1..(Len(full_transcript) - 1) :
         /\ full_transcript[i].type = "interaction"
         /\ full_transcript[i + 1].type = "moderator_follow_up"
    /\ \E i \in DOMAIN full_transcript : full_transcript[i].type = "transition"

(***************************************************************************)
(* C24.  The discussion flow taken from a reply of the service.            *)
(***************************************************************************)
\* the flow has a phase with a question
HasQuestion(flow) == \E i \in DOMAIN flow : flow[i].questions # << >>

\* C24: the discussion flow generated with the service enabled holds only
\* phases whose value was a list and questions that were strings, and when
\* the reply yields no phase with a string question the flow is the
\* six-phase template: the flow handed on is never empty.
C24_FlowFromReplyNeverEmpty ==
    (pc = "opening" /\ enabled) =>
        \/ discussion_flow = TemplateFlow
        \/ /\ HasQuestion(discussion_flow)
           /\ \A i \in DOMAIN discussion_flow :
                \A j \in DOMAIN discussion_flow[i].questions :
                   discussion_flow[i].questions[j] \in Seq(STRING)

(***************************************************************************)
(* C25.  The routing of outline sections to generators.                    *)
(***************************************************************************)
\* the generator of the first keyword group with a word in the title or in
\* the description, the general one when there is none
RoutedByTitleOrDescription(section) ==
    LET text == lower(section.title) \o <<"\n">> \o lower(section.description)
        hits == { i \in DOMAIN SectionGenerators :
                    ContainsAny(text, SectionGenerators[i].words) }
    IN IF hits = {} THEN "general"
       ELSE SectionGenerators[CHOOSE i \in hits : \A j \in hits : i <= j].generator

\* the value stored under a key that occurs once
ValueAt(pairs, key) == pairs[CHOOSE j \in DOMAIN pairs : pairs[j].k = key].v

\* C25: each parsed outline section is routed to the generator of the
\* first keyword group, in the fixed priority order, that has a keyword in
\* the section's title or in its description, and to the generic
\* generator when neither matches a group.  (Sections sharing their key
\* with another section or with the metadata are left aside.)
C25_RoutedByTitleOrDescription ==
    custom_summary.path = "fallback" =>
        LET sections == _parse_schema(schema)
        IN \A i \in DOMAIN sections :
             (/\ sections[i].key # MetadataKey
              /\ \A j \in DOMAIN sections : sections[j].key = sections[i].key => j = i)
             => ValueAt(custom_summary.pairs, sections[i].key)
                  = RoutedByTitleOrDescription(sections[i])

(***************************************************************************)
(* C26: the follow-up actions of the default summary.                      *)
(***************************************************************************)
\* the speakers of the stored transcript other than Moderator and System
TranscriptSpeakers ==
    { discussion_transcript[i].speaker : i \in DOMAIN discussion_transcript }
        \ {"Moderator", "System"}

\* some response of the stored transcript has "price" in it, in any case
PriceMentioned ==
    \E i \in DOMAIN discussion_transcript :
        /\ discussion_transcript[i].type = "response"
        /\ Contains(lower(discussion_transcript[i].content), <<"p", "r", "i", "c", "e">>)

\* C26 as stated: the default summary's next_steps is the same four-item
\* list (quantitative validation, prototyping, journey mapping,
\* prioritization) for every transcript
C26_NextStepsSameForEveryTranscript ==
    summary # NoSummary =>
        summary.next_steps = << SurveyStep, PrototypeStep, JourneyStep, PrioritizeStep >>

\* C26 amended: next_steps is prototyping, journey mapping and
\* prioritization, preceded by quantitative validation when the transcript
\* has five participants or more, with a price sensitivity analysis after
\* prototyping when a response mentions "price", and cut to four items
C26_NextStepsFollowPanelAndPrice ==
    summary # NoSummary =>
        summary.next_steps =
            CASE Cardinality(TranscriptSpeakers) >= 5 /\ PriceMentioned ->
                    << SurveyStep, PrototypeStep, PriceStep, JourneyStep >>
              [] Cardinality(TranscriptSpeakers) >= 5 /\ ~PriceMentioned ->
                    << SurveyStep, PrototypeStep, JourneyStep, PrioritizeStep >>
              [] Cardinality(TranscriptSpeakers) < 5 /\ PriceMentioned ->
                    << PrototypeStep, PriceStep, JourneyStep, PrioritizeStep >>
              [] OTHER -> << PrototypeStep, JourneyStep, PrioritizeStep >>

\* a summary of a five-participant transcript that mentions the price: the
\* price analysis takes the place of the prioritization
C26_Witness ==
    /\ summary # NoSummary
    /\ Cardinality(TranscriptSpeakers) >= 5
    /\ PriceMentioned
    /\ summary.next_steps = << SurveyStep, PrototypeStep, PriceStep, JourneyStep >>

(***************************************************************************)
(* C27: the coordinator reads a window of the transcript and writes none   *)
(* of it.                                                                  *)
(***************************************************************************)
\* s is a prefix of t
StartsWith(t, s) == Len(s) <= Len(t) /\ SubSeq(t, 1, Len(s)) = s

\* C27: the request of each propose_next_action call is the one formed from
\* the topic, the roster, the plan and the last 12 entries of the supplied
\* transcript alone, and the call leaves the supplied entries as they were
\* (the directive's entries are appended after them)
C27_RequestFromLastTwelveEntries ==
    [][pc = "loop" /\ turn' = turn + 1 =>
          /\ coordinator_request' =
                _user_prompt(topic, personas, LastN(transcript, 12), plan_text)
          /\ Len(coordinator_request'.recent) <= 12
          /\ StartsWith(transcript', transcript)]_vars

\* a later call on a transcript longer than the window: the request holds
\* the last 12 entries
C27_Witness ==
    /\ turn >= 2
    /\ Len(transcript) > 13
    /\ coordinator_request # NoPrompt
    /\ Len(coordinator_request.recent) = 12

(***************************************************************************)
(* C30: the personality type of a participant's organizer bucket.          *)
(***************************************************************************)
\* the bucket's personality_type is the one on each response entry of the
\* same speaker
BucketAgreesWithResponses(bucket, transcript_) ==
    \A i \in DOMAIN transcript_ :
        transcript_[i].type = "response" /\ transcript_[i].speaker = bucket.name
            => Field(transcript_[i], "personality_type", "unknown")
                   = bucket.personality_type

\* C30: once the transcript returned by conduct_discussion is organized,
\* each participant's bucket holds the personality_type carried by that
\* participant's response entries, whatever entry named the participant
\* first
C30_BucketPersonalityFromResponses ==
    organized_data # NoOrganized =>
        \A b \in DOMAIN organized_data.participants :
            BucketAgreesWithResponses(organized_data.participants[b],
                                      discussion_transcript)

(***************************************************************************)
(* C22: requests served while the discussion runs in the background.       *)
(***************************************************************************)
\* conduct_discussion is under way: its transcript is being built
InProgress == pc \in {"idle", "opening", "phases", "questions", "post"}

\* a transcript as a completed run returns it: from the setup entry to a
\* conclusion entry
Completed(t) ==
    /\ t # << >>
    /\ t[1].type = "setup"
    /\ t[Len(t)].type = "conclusion"

\* C22: every request for Q&A or for a custom summary is either refused,
\* no transcript being stored in the session, or reads the stored
\* transcript, which is the transcript of a completed run; what a request
\* was served with always ends with a conclusion entry, at whatever point
\* of the background run the request came
C22_RequestsReadCompletedTranscripts ==
    /\ [](served.code = 200 => Completed(served.transcript))
    /\ [][served' # served =>
            \/ /\ discussion_transcript = NoTranscript
               /\ served'.code = 500
               /\ served'.transcript = << >>
            \/ /\ discussion_transcript # NoTranscript
               /\ Completed(discussion_transcript)
               /\ served'.code = 200
               /\ served'.transcript = discussion_transcript
               /\ InProgress => served'.transcript # full_transcript]_vars

\* a custom summary served in the middle of a later run, from the
\* transcript of the earlier one
C22_Witness ==
    /\ pc = "questions"
    /\ Len(full_transcript) > 1
    /\ session_status = "summary_generated"
    /\ served.endpoint = "generate-custom-summary"
    /\ served.code = 200
    /\ Completed(served.transcript)

====
